---- MODULE Spec2Model ----
(***************************************************************************)
(* State-machine model of the Tehillim reading bot (src/main.py): the      *)
(* per-user bookmark store, the text repository (durable mapping file and  *)
(* in-memory cache), the goto flag and the command / button handlers.      *)
(***************************************************************************)
EXTENDS Integers, Sequences, FiniteSets, TLC

\* ------------------------------------------------------------------ constants
MAX_CHAPTER == 150

\* How many interactions (handler runs and store calls) a behaviour holds.
MaxSteps == 3

\* The users the bookmarks table knows, and those who interact with the bot.
Users == {1, 2}

Senders == {1}

Modes == {"regular", "monthly", "weekly"}

Chapters == 1..MAX_CHAPTER

\* Mutant: weekday 2 starts at the chapter weekday 1 ends with.
WEEKLY_SPLIT_overlap ==
  <<  <<1, 29>>, <<29, 50>>, <<51, 72>>, <<73, 89>>, <<90, 106>>,
      <<107, 119>>, <<120, 150>> >>

WEEKLY_SPLIT ==
  <<  <<1, 29>>, <<30, 50>>, <<51, 72>>, <<73, 89>>, <<90, 106>>,
      <<107, 119>>, <<120, 150>> >>

DAILY_SPLIT ==
  <<  <<1, 9>>, <<10, 17>>, <<18, 22>>, <<23, 28>>, <<29, 34>>, <<35, 38>>,
      <<39, 43>>, <<44, 48>>, <<49, 54>>, <<55, 59>>, <<60, 65>>, <<66, 68>>,
      <<69, 71>>, <<72, 76>>, <<77, 78>>, <<79, 82>>, <<83, 87>>, <<88, 89>>,
      <<90, 96>>, <<97, 103>>, <<104, 105>>, <<106, 107>>, <<108, 112>>,
      <<113, 118>>, <<119, 119>>, <<119, 119>>, <<119, 119>>, <<119, 119>>,
      <<120, 134>>, <<135, 150>> >>

\* ------------------------------------------------------------------ variables
VARIABLES
  db,              \* bookmarks table: user_id -> row (or no row)
  awaiting_goto,   \* context.user_data["awaiting_goto"], per user
  tehillim_cache,  \* _tehillim_cache: chapter -> text, empty when not loaded
  ps119_parts,     \* _ps119_parts: day -> segment text, empty when not loaded
  data_file,       \* the mapping file at DATA_PATH
  parts_file,      \* the mapping file at PS119_PARTS_PATH
  ADMIN_USER_ID,   \* the configured admin identity ("" when none)
  started,         \* main() has run ensure_texts_present and registered handlers
  sent,            \* the messages the last handler emitted, in order
  last,            \* the last interaction: operation, user and input
  steps,           \* interactions so far
  requests,        \* requests the last interaction made to the remote text service
  writes,          \* statements the last interaction ran on the bookmarks table
  tasks,           \* handler coroutines started and not yet returned, with
                   \* the bookmarks table as it was before the first of them
  conn,            \* _conn is not None: this process has connected to DB_PATH
  cols,            \* the columns of the bookmarks table
  call,            \* the table or utility function applied on its own, its argument
  result           \* what that application returned

vars == << db, awaiting_goto, tehillim_cache, ps119_parts, data_file,
           parts_file, ADMIN_USER_ID, started, sent, last, steps, requests,
           writes, tasks, conn, cols, call, result >>

\* ------------------------------------------------------------------ dicts
\* A Python dict is a function whose domain is its key set.
EmptyDict == [k \in {} |-> ""]

\* What dict.get(k) gives for a key that is not there (None).
None == "<None>"

DictGet(d, k) == IF k \in DOMAIN d THEN d[k] ELSE None

DictGetDefault(d, k, dflt) == IF k \in DOMAIN d THEN d[k] ELSE dflt

DictSet(d, k, v) == [x \in (DOMAIN d) \cup {k} |-> IF x = k THEN v ELSE d[x]]

\* Python truthiness of a dict and of an optional string.
DictTruthy(d) == DOMAIN d # {}

Falsy(text) == text = None \/ text = ""

NoFile == [exists |-> FALSE, data |-> EmptyDict]

File(d) == [exists |-> TRUE, data |-> d]

\* ------------------------------------------------------------------ bookmark store
\* The columns of the bookmarks table: those of the first schema and those
\* get_conn creates or the migration adds.
LegacyCols == {"user_id", "chapter", "updated_at"}

NewCols == {"chapter_regular", "chapter_monthly", "chapter_weekly", "current_mode"}

AllCols == LegacyCols \cup NewCols

NoRow ==
  [present |-> FALSE, chapter |-> 0, chapter_regular |-> 0,
   chapter_monthly |-> 0, chapter_weekly |-> 0, current_mode |-> ""]

\* INSERT with the table's column defaults (updated_at is written by every
\* statement and read by none; it is left out of the row).
NewRow ==
  [present |-> TRUE, chapter |-> 1, chapter_regular |-> 1,
   chapter_monthly |-> 1, chapter_weekly |-> 1, current_mode |-> "regular"]

get_current_mode(d, user_id) ==
  LET row == d[user_id] IN
    IF ~row.present \/ row.current_mode = "" THEN "regular"
    ELSE IF row.current_mode \notin {"regular", "monthly", "weekly"} THEN "regular"
    ELSE row.current_mode

\* Mutant: INSERT OR REPLACE in place of the upsert, the row starts over.
set_current_mode_replace(d, user_id, mode) ==
  [d EXCEPT ![user_id] = [NewRow EXCEPT !.current_mode = mode]]

set_current_mode(d, user_id, mode) ==
  IF d[user_id].present
    THEN [d EXCEPT ![user_id].current_mode = mode]
    ELSE [d EXCEPT ![user_id] = [NewRow EXCEPT !.chapter = 1, !.current_mode = mode]]

get_chapter(d, user_id, mode) ==
  LET row == d[user_id] IN
    IF ~row.present THEN 1
    ELSE CASE mode = "regular" -> row.chapter_regular
           [] mode = "monthly" -> row.chapter_monthly
           [] mode = "weekly" -> row.chapter_weekly

Max(a, b) == IF a >= b THEN a ELSE b

Min(a, b) == IF a <= b THEN a ELSE b

\* Mutant: the chapter is stored as given.
Clamp_none(chapter) == chapter

Clamp(chapter) == Max(1, Min(MAX_CHAPTER, chapter))

set_chapter(d, user_id, chapter0, mode) ==
  LET chapter == Clamp(chapter0)
      row == d[user_id]
  IN  IF mode = "regular" THEN
        IF row.present
          THEN [d EXCEPT ![user_id].chapter = chapter,
                         ![user_id].chapter_regular = chapter]
          ELSE [d EXCEPT ![user_id] =
                  [NewRow EXCEPT !.chapter = chapter, !.chapter_regular = chapter]]
      ELSE IF mode = "monthly" THEN
        IF row.present
          THEN [d EXCEPT ![user_id].chapter_monthly = chapter]
          ELSE [d EXCEPT ![user_id] =
                  [NewRow EXCEPT !.chapter = 1, !.chapter_monthly = chapter]]
      ELSE
        IF row.present
          THEN [d EXCEPT ![user_id].chapter_weekly = chapter]
          ELSE [d EXCEPT ![user_id] =
                  [NewRow EXCEPT !.chapter = 1, !.chapter_weekly = chapter]]

normalize_chapter(n) ==
  IF n < 1 THEN MAX_CHAPTER
  ELSE IF n > MAX_CHAPTER THEN 1
  ELSE n

\* ------------------------------------------------------------------ strings
DigitChars == <<"0", "1", "2", "3", "4", "5", "6", "7", "8", "9">>

\* str(n) of a natural number.
RECURSIVE str(_)
str(n) == IF n < 10 THEN DigitChars[n + 1] ELSE str(n \div 10) \o DigitChars[(n % 10) + 1]

\* The whitespace str.strip() and \s take off, as far as texts here hold it.
Whitespace == {" ", "\t", "\n", "\r", "\f"}

IsSpace(c) == c \in Whitespace

IsDigit(c) == \E i \in 1..10 : DigitChars[i] = c

DigitValue(c) == (CHOOSE i \in 1..10 : DigitChars[i] = c) - 1

\* text.strip() on a text given as its sequence of characters.
RECURSIVE lstrip(_)
lstrip(s) == IF s # <<>> /\ IsSpace(Head(s)) THEN lstrip(Tail(s)) ELSE s

RECURSIVE rstrip(_)
rstrip(s) ==
  IF s # <<>> /\ IsSpace(s[Len(s)]) THEN rstrip(SubSeq(s, 1, Len(s) - 1)) ELSE s

strip(s) == rstrip(lstrip(s))

RECURSIVE DigitsValue(_, _)
DigitsValue(s, acc) ==
  IF s = <<>> THEN acc ELSE DigitsValue(Tail(s), 10 * acc + DigitValue(Head(s)))

\* int(text): an optional sign followed by one or more decimal digits, anything
\* else raises ValueError (ok = FALSE).
int(s) ==
  LET signed == s # <<>> /\ Head(s) \in {"+", "-"}
      digits == IF signed THEN Tail(s) ELSE s
      valid == digits # <<>> /\ \A i \in 1..Len(digits) : IsDigit(digits[i])
      value == DigitsValue(digits, 0)
  IN  IF ~valid THEN [ok |-> FALSE, n |-> 0]
      ELSE [ok |-> TRUE, n |-> IF signed /\ Head(s) = "-" THEN 0 - value ELSE value]

\* ------------------------------------------------------------------ text repository
SampleTexts == [k \in {1, 2} |-> "sample:" \o str(k)]

PartsPlaceholder == [k \in 25..28 |-> "part:" \o str(k)]

\* Mutant: the cache is filled chapter by chapter and is visible to others
\* after the first one.
load_tehillim_first_only(cache, file) ==
  IF DictTruthy(cache) THEN cache
  ELSE IF file.exists THEN [k \in (DOMAIN file.data) \cap {1} |-> file.data[k]]
  ELSE SampleTexts

load_tehillim(cache, file) ==
  IF DictTruthy(cache) THEN cache
  ELSE IF file.exists THEN file.data
  ELSE SampleTexts

\* Mutant: the segments are never found.
load_ps119_parts_none(cache, file) == EmptyDict

load_ps119_parts(cache, file) ==
  IF DictTruthy(cache) THEN cache
  ELSE IF file.exists THEN file.data
  ELSE EmptyDict

\* One request to the remote text service: the verse-numbered text of chapter
\* n, or the error raise_for_status raises.
FetchError == "<HTTPError>"

\* The verse-numbered text the service holds for chapter n in edition v.
RemoteText == [v \in {"v1", "v2"} |-> [n \in 1..MAX_CHAPTER |-> v \o ":" \o str(n)]]

fetch_psalm(n, remote) ==
  IF n = remote.failAt THEN FetchError
  ELSE RemoteText[remote.ver][n]

\* The loop of download_all_texts, for n in 1..150: out[n] = fetch_psalm(n).
\* The first request that fails raises and ends the loop; out then holds the
\* chapters before it.
FirstFailure(remote) ==
  LET failing == {n \in 1..MAX_CHAPTER : fetch_psalm(n, remote) = FetchError} IN
    IF failing = {} THEN 0 ELSE CHOOSE n \in failing : \A m \in failing : n <= m

FetchAll(remote) ==
  LET k == FirstFailure(remote)
      done == IF k = 0 THEN MAX_CHAPTER ELSE k - 1
  IN  [ok |-> k = 0, out |-> [n \in 1..done |-> fetch_psalm(n, remote)]]

\* The requests that loop makes: all 150, or up to and with the failing one.
Requests(remote) ==
  LET k == FirstFailure(remote) IN IF k = 0 THEN MAX_CHAPTER ELSE k

\* Mutant: the mapping file is written as the chapters arrive, so a failure
\* leaves the chapters fetched so far in it.
download_all_texts_partial(file, pfile, remote) ==
  LET got == FetchAll(remote) IN
    IF ~got.ok THEN [ok |-> FALSE, data_file |-> File(got.out), parts_file |-> pfile]
    ELSE [ok |-> TRUE,
          data_file |-> File(got.out),
          parts_file |-> IF pfile.exists THEN pfile ELSE File(PartsPlaceholder)]

download_all_texts(file, pfile, remote) ==
  LET got == FetchAll(remote) IN
    IF ~got.ok THEN [ok |-> FALSE, data_file |-> file, parts_file |-> pfile]
    ELSE [ok |-> TRUE,
          data_file |-> File(got.out),
          parts_file |-> IF pfile.exists THEN pfile ELSE File(PartsPlaceholder)]

\* Mutant: with no admin configured nobody is refused.
is_admin_open(admin, user_id) == admin = "" \/ str(user_id) = admin

is_admin(admin, user_id) == admin # "" /\ str(user_id) = admin

\* ------------------------------------------------------------------ messages
Msg(kind, chapter, mode, body) ==
  [kind |-> kind, chapter |-> chapter, mode |-> mode, body |-> body]

MissingText(chapter) == "[missing " \o str(chapter) \o "]"

\* ------------------------------------------------------------------ message builders
\* Each builder gives the bookmark table, the text cache and (where it writes
\* one) the mapping file it leaves, and the messages it composes.

send_chapter(d, cache, file, user_id, chapter) ==
  LET data == load_tehillim(cache, file)
      text == DictGet(data, chapter)
  IN  IF Falsy(text)
        THEN [db |-> d, cache |-> data, writes |-> 0,
              sent |-> << Msg("missing", chapter, "", "") >>]
        ELSE LET mode == get_current_mode(d, user_id) IN
               [db |-> set_chapter(d, user_id, chapter, mode), cache |-> data,
                writes |-> 1,
                sent |-> << Msg("chapter", chapter, mode, text) >>]

build_chapter_message(d, cache, file, user_id, mode, chapter) ==
  LET data == load_tehillim(cache, file)
      text == DictGet(data, chapter)
      d2 == set_chapter(d, user_id, chapter, mode)
  IN  IF Falsy(text)
        THEN [db |-> d2, cache |-> data, writes |-> 1,
              sent |-> << Msg("missing", chapter, "", "") >>]
        ELSE [db |-> d2, cache |-> data, writes |-> 1,
              sent |-> << Msg("chapter", chapter, mode, text) >>]

\* The monthly trigger, as build_daily_message_for_user composes it for the
\* button: day is the Hebrew day of month of tznow(), remote the text service.
build_daily_message_for_user(d, cache, parts, file, pfile, user_id, day, remote) ==
  LET ch_from == DAILY_SPLIT[day][1]
      ch_to == DAILY_SPLIT[day][2]
      d1 == set_current_mode(d, user_id, "monthly")
      use_parts == ch_from = 119 /\ ch_to = 119 /\ pfile.exists
      parts2 == IF use_parts THEN load_ps119_parts(parts, pfile) ELSE parts
      part_text == IF use_parts THEN DictGet(parts2, day) ELSE None
  IN  IF use_parts /\ ~Falsy(part_text)
        THEN [db |-> set_chapter(d1, user_id, 119, "monthly"),
              cache |-> cache, parts |-> parts2, file |-> file, requests |-> 0, writes |-> 2,
              sent |-> << Msg("daily_part", 119, "monthly", part_text) >>]
        ELSE
          LET d2 == set_chapter(d1, user_id, ch_from, "monthly")
              data == load_tehillim(cache, file)
              txt == DictGet(data, ch_from)
              fetched == fetch_psalm(ch_from, remote)
          IN  IF ~Falsy(txt)
                THEN [db |-> d2, cache |-> data, parts |-> parts2, file |-> file,
                      requests |-> 0, writes |-> 2,
                      sent |-> << Msg("daily", ch_from, "monthly", txt) >>]
              ELSE IF fetched = FetchError
                THEN [db |-> d2, cache |-> data, parts |-> parts2, file |-> file,
                      requests |-> 1, writes |-> 2,
                      sent |-> << Msg("daily", ch_from, "monthly",
                                      MissingText(ch_from)) >>]
              ELSE \* data is the cache object itself: the fetched text lands in
                   \* the cache and the whole dict is dumped to DATA_PATH
                   LET data2 == DictSet(data, ch_from, fetched) IN
                     [db |-> d2, cache |-> data2, parts |-> parts2,
                      file |-> File(data2), requests |-> 1, writes |-> 2,
                      sent |-> << Msg("daily", ch_from, "monthly", fetched) >>]

\* Mutant: the monthly bookmark is written only once a text for the chapter
\* has been found.
cmd_daily_present_only(d, cache, parts, file, pfile, user_id, day, remote) ==
  LET ch_from == DAILY_SPLIT[day][1]
      ch_to == DAILY_SPLIT[day][2]
      d1 == set_current_mode(d, user_id, "monthly")
      use_parts == ch_from = 119 /\ ch_to = 119 /\ pfile.exists
      parts2 == IF use_parts THEN load_ps119_parts(parts, pfile) ELSE parts
      part_text == IF use_parts THEN DictGet(parts2, day) ELSE None
  IN  IF use_parts /\ ~Falsy(part_text)
        THEN [db |-> set_chapter(d1, user_id, 119, "monthly"),
              cache |-> cache, parts |-> parts2, file |-> file, requests |-> 0, writes |-> 2,
              sent |-> << Msg("daily_part", 119, "monthly", part_text) >>]
        ELSE
          LET d2 == set_chapter(d1, user_id, ch_from, "monthly")
              data == load_tehillim(cache, file)
              txt == DictGet(data, ch_from)
              fetched == fetch_psalm(ch_from, remote)
          IN  IF ~Falsy(txt)
                THEN [db |-> d2, cache |-> data, parts |-> parts2, file |-> file,
                      requests |-> 0, writes |-> 2,
                      sent |-> << Msg("daily", ch_from, "monthly", txt) >>]
              ELSE IF fetched = FetchError
                THEN [db |-> d1, cache |-> data, parts |-> parts2, file |-> file,
                      requests |-> 1, writes |-> 1,
                      sent |-> << Msg("daily", ch_from, "monthly",
                                      MissingText(ch_from)) >>]
              ELSE LET data2 == DictSet(data, ch_from, fetched) IN
                     [db |-> d2, cache |-> data2, parts |-> parts2,
                      file |-> File(data2), requests |-> 1, writes |-> 2,
                      sent |-> << Msg("daily", ch_from, "monthly", fetched) >>]

\* Mutant: the service is asked for the chapter before the loaded texts are
\* looked at.
cmd_daily_fetch_first(d, cache, parts, file, pfile, user_id, day, remote) ==
  [build_daily_message_for_user(d, cache, parts, file, pfile, user_id, day, remote)
     EXCEPT !.requests = 1]

\* cmd_daily repeats the same steps inline and sends instead of editing.
cmd_daily(d, cache, parts, file, pfile, user_id, day, remote) ==
  LET ch_from == DAILY_SPLIT[day][1]
      ch_to == DAILY_SPLIT[day][2]
      d1 == set_current_mode(d, user_id, "monthly")
      use_parts == ch_from = 119 /\ ch_to = 119 /\ pfile.exists
      parts2 == IF use_parts THEN load_ps119_parts(parts, pfile) ELSE parts
      part_text == IF use_parts THEN DictGet(parts2, day) ELSE None
  IN  IF use_parts /\ ~Falsy(part_text)
        THEN [db |-> set_chapter(d1, user_id, 119, "monthly"),
              cache |-> cache, parts |-> parts2, file |-> file, requests |-> 0, writes |-> 2,
              sent |-> << Msg("daily_part", 119, "monthly", part_text) >>]
        ELSE
          LET d2 == set_chapter(d1, user_id, ch_from, "monthly")
              data == load_tehillim(cache, file)
              txt == DictGet(data, ch_from)
              fetched == fetch_psalm(ch_from, remote)
          IN  IF ~Falsy(txt)
                THEN [db |-> d2, cache |-> data, parts |-> parts2, file |-> file,
                      requests |-> 0, writes |-> 2,
                      sent |-> << Msg("daily", ch_from, "monthly", txt) >>]
              ELSE IF fetched = FetchError
                THEN [db |-> d2, cache |-> data, parts |-> parts2, file |-> file,
                      requests |-> 1, writes |-> 2,
                      sent |-> << Msg("daily", ch_from, "monthly",
                                      MissingText(ch_from)) >>]
              ELSE LET data2 == DictSet(data, ch_from, fetched) IN
                     [db |-> d2, cache |-> data2, parts |-> parts2,
                      file |-> File(data2), requests |-> 1, writes |-> 2,
                      sent |-> << Msg("daily", ch_from, "monthly", fetched) >>]

\* Mutant: the weekly trigger switches the mode and shows the chapter without
\* moving the weekly bookmark.
build_weekly_message_for_user_keep(d, cache, file, user_id, weekday) ==
  LET ch_from == WEEKLY_SPLIT[weekday][1]
      d1 == set_current_mode(d, user_id, "weekly")
      data == load_tehillim(cache, file)
      t == DictGetDefault(data, ch_from, MissingText(ch_from))
  IN  [db |-> d1, cache |-> data, writes |-> 1,
       sent |-> << Msg("weekly", ch_from, "weekly", t) >>]

\* The weekly trigger (cmd_weekly and build_weekly_message_for_user agree line
\* by line): weekday is tznow().isoweekday().
build_weekly_message_for_user(d, cache, file, user_id, weekday) ==
  LET ch_from == WEEKLY_SPLIT[weekday][1]
      d1 == set_current_mode(d, user_id, "weekly")
      d2 == set_chapter(d1, user_id, ch_from, "weekly")
      data == load_tehillim(cache, file)
      t == DictGetDefault(data, ch_from, MissingText(ch_from))
  IN  [db |-> d2, cache |-> data, writes |-> 2,
       sent |-> << Msg("weekly", ch_from, "weekly", t) >>]

\* ------------------------------------------------------------------ inputs
\* The Hebrew days of month and ISO weekdays the model draws tznow() from: a
\* day whose first chapter the sample texts lack (2), a Psalm 119 day (25);
\* weekdays whose first chapter the sample texts hold (1) and lack (2, 7).
DayInputs == {2, 25}

WeekdayInputs == {1, 2, 7}

\* The remote text service as one handler run sees it: the chapter whose
\* request fails (0: none) and the edition of the text it serves.
RemoteTexts == DOMAIN RemoteText

FailPoints == {1, MAX_CHAPTER}

BulkRemotes ==
  {[failAt |-> f, ver |-> "v1"] : f \in FailPoints}
    \cup {[failAt |-> 0, ver |-> v] : v \in RemoteTexts}

\* The same for the single request of a monthly trigger for chapter n.
SingleRemotes(n) == {[failAt |-> n, ver |-> "v1"], [failAt |-> 0, ver |-> "v1"]}

\* Free texts a user types, as character sequences.
TextInputs ==
  { << "a" >>, << "0" >>, << "-", "3" >>, << "1", "5", "1" >>, << "2" >>,
    << " ", "4", "2", " " >> }

\* Arguments of direct bookmark-store calls.
ChapterArgs == {-4, 0, 77, 151}

\* Rows a bookmarks.db kept from earlier runs can hold.
Row(reg, mon, wk, mode) ==
  [present |-> TRUE, chapter |-> reg, chapter_regular |-> reg,
   chapter_monthly |-> mon, chapter_weekly |-> wk, current_mode |-> mode]

PersistedRows == { NoRow, Row(50, 10, 5, "regular") }

OtherRow == Row(7, 8, 9, "monthly")

\* No admin configured, the sender, and somebody else.
AdminConfigs == {"", "1", "2"}

\* The slots of the two schedule tables: Hebrew days of month, ISO weekdays.
Days == 1..Len(DAILY_SPLIT)

Weekdays == 1..Len(WEEKLY_SPLIT)

\* Nothing has been applied on its own.
NoCall == [fn |-> "", arg |-> 0]

\* No handler is suspended at an await.
NoTasks == [before |-> << >>, run |-> << >>]

\* ------------------------------------------------------------------ initial state
Init ==
  /\ db \in {d \in [Users -> PersistedRows \cup {OtherRow}] :
               \A u \in Users : (u \in Senders) = (d[u] # OtherRow)}
  /\ awaiting_goto = [u \in Users |-> FALSE]
  /\ tehillim_cache = EmptyDict
  /\ ps119_parts = EmptyDict
  /\ data_file = NoFile
  /\ parts_file = NoFile
  /\ ADMIN_USER_ID \in AdminConfigs
  /\ started = FALSE
  /\ sent = << >>
  /\ last = [op |-> "init", user |-> 0, n |-> 0, mode |-> "", text |-> << >>]
  /\ steps = 0
  /\ requests = 0
  /\ writes = 0
  /\ tasks = NoTasks
  /\ conn = TRUE
  /\ cols = AllCols
  /\ call = NoCall
  /\ result = << >>

\* ------------------------------------------------------------------ startup
\* main(): ensure_texts_present() downloads everything when DATA_PATH does not
\* exist; a failure there is logged and the bot starts all the same.
ensure_texts_present(remote) ==
  IF data_file.exists
    THEN UNCHANGED << data_file, parts_file, tehillim_cache, ps119_parts >>
    ELSE LET got == download_all_texts(data_file, parts_file, remote) IN
           IF got.ok
             THEN /\ data_file' = got.data_file
                  /\ parts_file' = got.parts_file
                  /\ tehillim_cache' = EmptyDict
                  /\ ps119_parts' = EmptyDict
             ELSE UNCHANGED << data_file, parts_file, tehillim_cache, ps119_parts >>

Main ==
  /\ ~started
  /\ \E remote \in BulkRemotes :
       /\ ensure_texts_present(remote)
       /\ requests' = IF data_file.exists THEN 0 ELSE Requests(remote)
  /\ writes' = 0
  /\ started' = TRUE
  /\ last' = [op |-> "main", user |-> 0, n |-> 0, mode |-> "", text |-> << >>]
  /\ sent' = << >>
  /\ UNCHANGED << db, awaiting_goto, ADMIN_USER_ID, steps, tasks, conn, cols, call, result >>

\* One interaction: op names the handler or store call, n, mode and text its input.
Call(op, user, n, mode, text) ==
  /\ started
  /\ steps < MaxSteps
  /\ steps' = steps + 1
  /\ last' = [op |-> op, user |-> user, n |-> n, mode |-> mode, text |-> text]
  /\ UNCHANGED << ADMIN_USER_ID, started, tasks, conn, cols, call, result >>

Interact(op, user, n, text) == Call(op, user, n, "", text)

\* The handlers that go through send_chapter.
SendChapterStep(user, chapter) ==
  LET r == send_chapter(db, tehillim_cache, data_file, user, chapter) IN
    /\ db' = r.db
    /\ tehillim_cache' = r.cache
    /\ sent' = r.sent
    /\ writes' = r.writes
    /\ UNCHANGED << ps119_parts, data_file, parts_file >>

\* The button branches that go through build_chapter_message: before are the
\* messages the branch has sent by then, ran the statements it has run.
BuildChapterStep(d, user, mode, chapter, before, ran) ==
  LET r == build_chapter_message(d, tehillim_cache, data_file, user, mode, chapter) IN
    /\ db' = r.db
    /\ tehillim_cache' = r.cache
    /\ sent' = before \o r.sent
    /\ writes' = ran + r.writes
    /\ UNCHANGED << ps119_parts, data_file, parts_file >>

\* ------------------------------------------------------------------ command handlers
cmd_start(user) ==
  /\ Interact("cmd_start", user, 0, << >>)
  /\ requests' = 0
  /\ LET mode == get_current_mode(db, user)
         chapter == get_chapter(db, user, mode)
     IN  SendChapterStep(user, chapter)
  /\ UNCHANGED awaiting_goto

cmd_next(user) ==
  /\ Interact("cmd_next", user, 0, << >>)
  /\ requests' = 0
  /\ LET mode == get_current_mode(db, user)
         chapter == normalize_chapter(get_chapter(db, user, mode) + 1)
     IN  SendChapterStep(user, chapter)
  /\ UNCHANGED awaiting_goto

cmd_prev(user) ==
  /\ Interact("cmd_prev", user, 0, << >>)
  /\ requests' = 0
  /\ LET mode == get_current_mode(db, user)
         chapter == normalize_chapter(get_chapter(db, user, mode) - 1)
     IN  SendChapterStep(user, chapter)
  /\ UNCHANGED awaiting_goto

cmd_where(user) ==
  /\ Interact("cmd_where", user, 0, << >>)
  /\ requests' = 0
  /\ writes' = 0
  /\ LET row == IF db[user].present THEN db[user] ELSE NewRow
         label == IF row.current_mode \in Modes THEN row.current_mode ELSE "regular"
     IN  sent' = << Msg("where", 0, label,
                        str(row.chapter_regular) \o "," \o str(row.chapter_monthly)
                          \o "," \o str(row.chapter_weekly)) >>
  /\ UNCHANGED << db, awaiting_goto, tehillim_cache, ps119_parts, data_file, parts_file >>

cmd_goto(user) ==
  /\ Interact("cmd_goto", user, 0, << >>)
  /\ requests' = 0
  /\ writes' = 0
  /\ sent' = << Msg("prompt", 0, "", "") >>
  /\ awaiting_goto' = [awaiting_goto EXCEPT ![user] = TRUE]
  /\ UNCHANGED << db, tehillim_cache, ps119_parts, data_file, parts_file >>

CmdDaily(user, day, remote) ==
  /\ Interact("cmd_daily", user, day, << >>)
  /\ LET r == cmd_daily(db, tehillim_cache, ps119_parts, data_file, parts_file,
                        user, day, remote)
     IN  /\ db' = r.db
         /\ tehillim_cache' = r.cache
         /\ ps119_parts' = r.parts
         /\ data_file' = r.file
         /\ sent' = r.sent
         /\ requests' = r.requests
         /\ writes' = r.writes
  /\ UNCHANGED << awaiting_goto, parts_file >>

cmd_weekly(user, weekday) ==
  /\ Interact("cmd_weekly", user, weekday, << >>)
  /\ requests' = 0
  /\ LET r == build_weekly_message_for_user(db, tehillim_cache, data_file, user, weekday)
     IN  /\ db' = r.db
         /\ tehillim_cache' = r.cache
         /\ sent' = r.sent
         /\ writes' = r.writes
  /\ UNCHANGED << awaiting_goto, ps119_parts, data_file, parts_file >>

\* Mutant: a successful refresh leaves both caches as they were.
cmd_load_texts_keeps_cache(user, remote) ==
  /\ Interact("cmd_load_texts", user, remote.failAt, << >>)
  /\ writes' = 0
  /\ IF ~is_admin(ADMIN_USER_ID, user)
       THEN /\ sent' = << Msg("denied", 0, "", "") >>
            /\ requests' = 0
            /\ UNCHANGED << tehillim_cache, ps119_parts, data_file, parts_file >>
       ELSE LET got == download_all_texts(data_file, parts_file, remote) IN
              /\ requests' = Requests(remote)
              /\ IF ~got.ok
                   THEN /\ sent' = << Msg("loading", 0, "", ""), Msg("load_error", 0, "", "") >>
                        /\ UNCHANGED << tehillim_cache, ps119_parts, data_file, parts_file >>
                   ELSE /\ data_file' = got.data_file
                        /\ parts_file' = got.parts_file
                        /\ UNCHANGED << tehillim_cache, ps119_parts >>
                        /\ sent' = << Msg("loading", 0, "", ""), Msg("saved", 0, "", "") >>
  /\ UNCHANGED << db, awaiting_goto >>

cmd_load_texts(user, remote) ==
  /\ Interact("cmd_load_texts", user, remote.failAt, << >>)
  /\ writes' = 0
  /\ IF ~is_admin(ADMIN_USER_ID, user)
       THEN /\ sent' = << Msg("denied", 0, "", "") >>
            /\ requests' = 0
            /\ UNCHANGED << tehillim_cache, ps119_parts, data_file, parts_file >>
       ELSE LET got == download_all_texts(data_file, parts_file, remote) IN
              /\ requests' = Requests(remote)
              /\ IF ~got.ok
                   THEN /\ sent' = << Msg("loading", 0, "", ""), Msg("load_error", 0, "", "") >>
                        /\ UNCHANGED << tehillim_cache, ps119_parts, data_file, parts_file >>
                   ELSE /\ data_file' = got.data_file
                        /\ parts_file' = got.parts_file
                        /\ tehillim_cache' = EmptyDict
                        /\ ps119_parts' = EmptyDict
                        /\ sent' = << Msg("loading", 0, "", ""), Msg("saved", 0, "", "") >>
  /\ UNCHANGED << db, awaiting_goto >>

\* Mutants of on_free_text: the flag is not consulted (any text is a goto
\* answer), or it is cleared as soon as a text arrives, or it is cleared when
\* the number is out of range.
OnFreeTextVariant(user, text, checkFlag, clearFirst, clearOnRange) ==
  /\ Interact("on_free_text", user, 0, text)
  /\ requests' = 0
  /\ LET cleared == [awaiting_goto EXCEPT ![user] = FALSE]
         parsed == int(strip(text))
     IN  IF checkFlag /\ ~awaiting_goto[user]
           THEN /\ sent' = << >>
                /\ writes' = 0
                /\ UNCHANGED << db, awaiting_goto, tehillim_cache, ps119_parts,
                                data_file, parts_file >>
         ELSE IF ~parsed.ok
           THEN /\ sent' = << Msg("reprompt_number", 0, "", "") >>
                /\ writes' = 0
                /\ awaiting_goto' = IF clearFirst THEN cleared ELSE awaiting_goto
                /\ UNCHANGED << db, tehillim_cache, ps119_parts, data_file, parts_file >>
         ELSE IF ~(1 <= parsed.n /\ parsed.n <= MAX_CHAPTER)
           THEN /\ sent' = << Msg("reprompt_range", 0, "", "") >>
                /\ writes' = 0
                /\ awaiting_goto' =
                     IF clearFirst \/ clearOnRange THEN cleared ELSE awaiting_goto
                /\ UNCHANGED << db, tehillim_cache, ps119_parts, data_file, parts_file >>
         ELSE /\ awaiting_goto' = cleared
              /\ SendChapterStep(user, parsed.n)

on_free_text_no_flag(user, text) == OnFreeTextVariant(user, text, FALSE, FALSE, FALSE)

on_free_text_clear_first(user, text) == OnFreeTextVariant(user, text, TRUE, TRUE, FALSE)

on_free_text_range_clears(user, text) == OnFreeTextVariant(user, text, TRUE, FALSE, TRUE)

on_free_text(user, text) ==
  /\ Interact("on_free_text", user, 0, text)
  /\ requests' = 0
  /\ IF ~awaiting_goto[user]
       THEN /\ sent' = << >>
            /\ writes' = 0
            /\ UNCHANGED << db, awaiting_goto, tehillim_cache, ps119_parts,
                            data_file, parts_file >>
       ELSE LET parsed == int(strip(text)) IN
              IF ~parsed.ok
                THEN /\ sent' = << Msg("reprompt_number", 0, "", "") >>
                     /\ writes' = 0
                     /\ UNCHANGED << db, awaiting_goto, tehillim_cache, ps119_parts,
                                     data_file, parts_file >>
              ELSE IF ~(1 <= parsed.n /\ parsed.n <= MAX_CHAPTER)
                THEN /\ sent' = << Msg("reprompt_range", 0, "", "") >>
                     /\ writes' = 0
                     /\ UNCHANGED << db, awaiting_goto, tehillim_cache, ps119_parts,
                                     data_file, parts_file >>
              ELSE /\ awaiting_goto' = [awaiting_goto EXCEPT ![user] = FALSE]
                   /\ SendChapterStep(user, parsed.n)

\* ------------------------------------------------------------------ button handler
\* on_callback, one action per value of the button's callback data.
on_callback_next(user) ==
  /\ Interact("cb_next", user, 0, << >>)
  /\ requests' = 0
  /\ LET mode == get_current_mode(db, user)
         chapter == normalize_chapter(get_chapter(db, user, mode) + 1)
     IN  BuildChapterStep(db, user, mode, chapter, << >>, 0)
  /\ UNCHANGED awaiting_goto

on_callback_prev(user) ==
  /\ Interact("cb_prev", user, 0, << >>)
  /\ requests' = 0
  /\ LET mode == get_current_mode(db, user)
         chapter == normalize_chapter(get_chapter(db, user, mode) - 1)
     IN  BuildChapterStep(db, user, mode, chapter, << >>, 0)
  /\ UNCHANGED awaiting_goto

on_callback_reset(user) ==
  /\ Interact("cb_reset", user, 0, << >>)
  /\ requests' = 0
  /\ LET mode == get_current_mode(db, user)
         d1 == set_chapter(db, user, 1, mode)
     IN  BuildChapterStep(d1, user, mode, 1, << Msg("reset_answer", 1, mode, "") >>, 1)
  /\ UNCHANGED awaiting_goto

on_callback_goto(user) ==
  /\ Interact("cb_goto", user, 0, << >>)
  /\ requests' = 0
  /\ writes' = 0
  /\ sent' = << Msg("prompt", 0, "", "") >>
  /\ awaiting_goto' = [awaiting_goto EXCEPT ![user] = TRUE]
  /\ UNCHANGED << db, tehillim_cache, ps119_parts, data_file, parts_file >>

on_callback_daily(user, day, remote) ==
  /\ Interact("cb_daily", user, day, << >>)
  /\ LET r == build_daily_message_for_user(db, tehillim_cache, ps119_parts, data_file,
                                           parts_file, user, day, remote)
     IN  /\ db' = r.db
         /\ tehillim_cache' = r.cache
         /\ ps119_parts' = r.parts
         /\ data_file' = r.file
         /\ sent' = r.sent
         /\ requests' = r.requests
         /\ writes' = r.writes
  /\ UNCHANGED << awaiting_goto, parts_file >>

on_callback_weekly(user, weekday) ==
  /\ Interact("cb_weekly", user, weekday, << >>)
  /\ requests' = 0
  /\ LET r == build_weekly_message_for_user(db, tehillim_cache, data_file, user, weekday)
     IN  /\ db' = r.db
         /\ tehillim_cache' = r.cache
         /\ sent' = r.sent
         /\ writes' = r.writes
  /\ UNCHANGED << awaiting_goto, ps119_parts, data_file, parts_file >>

on_callback_regular(user) ==
  /\ Interact("cb_regular", user, 0, << >>)
  /\ requests' = 0
  /\ LET d1 == set_current_mode(db, user, "regular")
         chapter == get_chapter(d1, user, "regular")
     IN  BuildChapterStep(d1, user, "regular", chapter, << >>, 1)
  /\ UNCHANGED awaiting_goto

\* ------------------------------------------------------------------ store calls
\* The bookmark store's two writes, called on their own.
SetChapterCall(user, chapter, mode) ==
  /\ Call("set_chapter", user, chapter, mode, << >>)
  /\ requests' = 0
  /\ db' = set_chapter(db, user, chapter, mode)
  /\ writes' = 1
  /\ sent' = << >>
  /\ UNCHANGED << awaiting_goto, tehillim_cache, ps119_parts, data_file, parts_file >>

SetCurrentModeCall(user, mode) ==
  /\ Call("set_current_mode", user, 0, mode, << >>)
  /\ requests' = 0
  /\ db' = set_current_mode(db, user, mode)
  /\ writes' = 1
  /\ sent' = << >>
  /\ UNCHANGED << awaiting_goto, tehillim_cache, ps119_parts, data_file, parts_file >>

\* ------------------------------------------------------------------ specification
Next ==
  \/ Main
  \/ \E u \in Senders : cmd_start(u)
  \/ \E u \in Senders : cmd_next(u)
  \/ \E u \in Senders : cmd_prev(u)
  \/ \E u \in Senders : cmd_where(u)
  \/ \E u \in Senders : cmd_goto(u)
  \/ \E u \in Senders, day \in DayInputs :
       \E remote \in SingleRemotes(DAILY_SPLIT[day][1]) : CmdDaily(u, day, remote)
  \/ \E u \in Senders, weekday \in WeekdayInputs : cmd_weekly(u, weekday)
  \/ \E u \in Senders, remote \in BulkRemotes : cmd_load_texts(u, remote)
  \/ \E u \in Senders, text \in TextInputs : on_free_text(u, text)
  \/ \E u \in Senders : on_callback_next(u)
  \/ \E u \in Senders : on_callback_prev(u)
  \/ \E u \in Senders : on_callback_reset(u)
  \/ \E u \in Senders : on_callback_goto(u)
  \/ \E u \in Senders, day \in DayInputs :
       \E remote \in SingleRemotes(DAILY_SPLIT[day][1]) :
         on_callback_daily(u, day, remote)
  \/ \E u \in Senders, weekday \in WeekdayInputs : on_callback_weekly(u, weekday)
  \/ \E u \in Senders : on_callback_regular(u)

Spec == Init /\ [][Next]_vars

\* ------------------------------------------------------------------ the store alone
\* The bookmark store under sequences of its two writes, from the rows a table
\* can hold and with the arguments callers can pass.
StoreRows == { NoRow, Row(1, 1, 1, "regular"), Row(MAX_CHAPTER, 10, 5, "weekly") }

InitStore ==
  /\ db \in [Users -> StoreRows]
  /\ awaiting_goto = [u \in Users |-> FALSE]
  /\ tehillim_cache = EmptyDict
  /\ ps119_parts = EmptyDict
  /\ data_file = NoFile
  /\ parts_file = NoFile
  /\ ADMIN_USER_ID = ""
  /\ started = TRUE
  /\ sent = << >>
  /\ last = [op |-> "init", user |-> 0, n |-> 0, mode |-> "", text |-> << >>]
  /\ steps = 0
  /\ requests = 0
  /\ writes = 0
  /\ tasks = NoTasks
  /\ conn = TRUE
  /\ cols = AllCols
  /\ call = NoCall
  /\ result = << >>

NextStore ==
  \/ \E u \in Users, c \in ChapterArgs, m \in Modes : SetChapterCall(u, c, m)
  \/ \E u \in Users, m \in Modes : SetCurrentModeCall(u, m)

SpecStore == InitStore /\ [][NextStore]_vars

\* ------------------------------------------------------------------ handlers in flight
\* The navigation handlers as coroutines: a handler runs without interruption
\* from one await to the next, and at an await another handler of the same
\* user may run. (main builds the Application without concurrent_updates, so
\* the library starts an update's handler only after the previous one has
\* returned; letting handlers interleave at every await includes that
\* schedule and every concurrent one.)
MaxTaps == 2

TapOps == {"cb_next", "cb_prev", "cb_reset", "cmd_next", "cmd_prev"}

ButtonOps == {"cb_next", "cb_prev", "cb_reset"}

\* A coroutine: its handler, its user, where it is suspended, its locals.
Task(op, user) == [op |-> op, user |-> user, pc |-> "start", mode |-> "", chapter |-> 0]

Delta(op) == IF op \in {"cb_next", "cmd_next"} THEN 1 ELSE -1

\* Mutants of Segment: the button handler reads mode and chapter before its
\* first await (q.answer) and writes them after it.
SegmentVariant(t, d, cache, file, early) ==
  LET u == t.user
      mode == get_current_mode(d, u)
      chapter == normalize_chapter(get_chapter(d, u, mode) + Delta(t.op))
      same == [task |-> t, db |-> d, cache |-> cache, writes |-> 0, sent |-> << >>]
  IN  IF t.op \in ButtonOps /\ t.pc = "start" THEN
        [same EXCEPT !.task = [t EXCEPT !.pc = "answered", !.mode = mode,
                                        !.chapter = chapter]]
      ELSE IF t.op \in {"cb_next", "cb_prev"} /\ t.pc = "answered" THEN
        LET r == IF early
                   THEN build_chapter_message(d, cache, file, u, t.mode, t.chapter)
                   ELSE build_chapter_message(d, cache, file, u, mode, chapter)
        IN  [task |-> [t EXCEPT !.pc = "edit"],
             db |-> r.db, cache |-> r.cache, writes |-> r.writes, sent |-> r.sent]
      ELSE IF t.op = "cb_reset" /\ t.pc = "answered" THEN
        [task |-> [t EXCEPT !.pc = "reset_answer", !.mode = mode],
         db |-> set_chapter(d, u, 1, mode), cache |-> cache, writes |-> 1,
         sent |-> << Msg("reset_answer", 1, mode, "") >>]
      ELSE IF t.op = "cb_reset" /\ t.pc = "reset_answer" THEN
        LET r == build_chapter_message(d, cache, file, u, t.mode, 1) IN
          [task |-> [t EXCEPT !.pc = "edit"],
           db |-> r.db, cache |-> r.cache, writes |-> r.writes, sent |-> r.sent]
      ELSE IF t.op \in {"cmd_next", "cmd_prev"} /\ t.pc = "start" THEN
        LET r == send_chapter(d, cache, file, u, chapter) IN
          [task |-> [t EXCEPT !.pc = "send", !.mode = mode, !.chapter = chapter],
           db |-> r.db, cache |-> r.cache, writes |-> r.writes, sent |-> r.sent]
      ELSE [same EXCEPT !.task = [t EXCEPT !.pc = "done"]]

Segment_early_read(t, d, cache, file) == SegmentVariant(t, d, cache, file, TRUE)

\* What task t does from where it is suspended up to its next await:
\*   button handlers   start -(await q.answer())-> answered
\*   next, prev        answered: read mode and chapter, build_chapter_message
\*                     -(await edit_nav_message)-> edit -> done
\*   reset             answered: read mode, set_chapter(1)
\*                     -(await q.answer(text))-> reset_answer:
\*                     build_chapter_message(mode, 1) -(await edit)-> edit -> done
\*   /next, /prev      start: read mode and chapter, send_chapter up to its
\*                     send -(await send_message)-> send -> done
Segment(t, d, cache, file) ==
  LET u == t.user
      mode == get_current_mode(d, u)
      chapter == normalize_chapter(get_chapter(d, u, mode) + Delta(t.op))
      same == [task |-> t, db |-> d, cache |-> cache, writes |-> 0, sent |-> << >>]
  IN  IF t.op \in ButtonOps /\ t.pc = "start" THEN
        [same EXCEPT !.task = [t EXCEPT !.pc = "answered"]]
      ELSE IF t.op \in {"cb_next", "cb_prev"} /\ t.pc = "answered" THEN
        LET r == build_chapter_message(d, cache, file, u, mode, chapter) IN
          [task |-> [t EXCEPT !.pc = "edit", !.mode = mode, !.chapter = chapter],
           db |-> r.db, cache |-> r.cache, writes |-> r.writes, sent |-> r.sent]
      ELSE IF t.op = "cb_reset" /\ t.pc = "answered" THEN
        [task |-> [t EXCEPT !.pc = "reset_answer", !.mode = mode],
         db |-> set_chapter(d, u, 1, mode), cache |-> cache, writes |-> 1,
         sent |-> << Msg("reset_answer", 1, mode, "") >>]
      ELSE IF t.op = "cb_reset" /\ t.pc = "reset_answer" THEN
        LET r == build_chapter_message(d, cache, file, u, t.mode, 1) IN
          [task |-> [t EXCEPT !.pc = "edit"],
           db |-> r.db, cache |-> r.cache, writes |-> r.writes, sent |-> r.sent]
      ELSE IF t.op \in {"cmd_next", "cmd_prev"} /\ t.pc = "start" THEN
        LET r == send_chapter(d, cache, file, u, chapter) IN
          [task |-> [t EXCEPT !.pc = "send", !.mode = mode, !.chapter = chapter],
           db |-> r.db, cache |-> r.cache, writes |-> r.writes, sent |-> r.sent]
      ELSE [same EXCEPT !.task = [t EXCEPT !.pc = "done"]]

\* An update arrives and its handler coroutine is created.
Tap(user, op) ==
  /\ started
  /\ Len(tasks.run) < MaxTaps
  /\ tasks' = [before |-> IF tasks.run = << >> THEN db ELSE tasks.before,
               run |-> Append(tasks.run, Task(op, user))]
  /\ last' = [op |-> "tap", user |-> user, n |-> Len(tasks.run) + 1, mode |-> op,
              text |-> << >>]
  /\ sent' = << >>
  /\ requests' = 0
  /\ writes' = 0
  /\ UNCHANGED << db, awaiting_goto, tehillim_cache, ps119_parts, data_file,
                  parts_file, ADMIN_USER_ID, started, steps, conn, cols, call, result >>

\* The event loop resumes coroutine i up to its next await.
RunTask(i) ==
  /\ i \in 1..Len(tasks.run)
  /\ tasks.run[i].pc # "done"
  /\ LET r == Segment(tasks.run[i], db, tehillim_cache, data_file) IN
       /\ tasks' = [tasks EXCEPT !.run[i] = r.task]
       /\ db' = r.db
       /\ tehillim_cache' = r.cache
       /\ sent' = r.sent
       /\ writes' = r.writes
       /\ last' = [op |-> r.task.op, user |-> r.task.user, n |-> i,
                   mode |-> r.task.pc, text |-> << >>]
  /\ requests' = 0
  /\ UNCHANGED << awaiting_goto, ps119_parts, data_file, parts_file,
                  ADMIN_USER_ID, started, steps, conn, cols, call, result >>

\* The rows and mapping files the taps start from: a pointer in the middle and
\* one at the end of the book, the texts all there or only the two samples.
TapRows == { NoRow, Row(50, 10, 5, "regular"), Row(5, 10, MAX_CHAPTER, "weekly") }

TapFiles == { NoFile, File(RemoteText["v1"]) }

InitTaps ==
  /\ db \in {d \in [Users -> TapRows \cup {OtherRow}] :
               \A u \in Users : (u \in Senders) = (d[u] # OtherRow)}
  /\ awaiting_goto = [u \in Users |-> FALSE]
  /\ tehillim_cache = EmptyDict
  /\ ps119_parts = EmptyDict
  /\ data_file \in TapFiles
  /\ parts_file = NoFile
  /\ ADMIN_USER_ID = ""
  /\ started = TRUE
  /\ sent = << >>
  /\ last = [op |-> "init", user |-> 0, n |-> 0, mode |-> "", text |-> << >>]
  /\ steps = 0
  /\ requests = 0
  /\ writes = 0
  /\ tasks = [before |-> db, run |-> << >>]
  /\ conn = TRUE
  /\ cols = AllCols
  /\ call = NoCall
  /\ result = << >>

NextTaps ==
  \/ \E u \in Senders, op \in TapOps : Tap(u, op)
  \/ \E i \in 1..MaxTaps : RunTask(i)

SpecTaps == InitTaps /\ [][NextTaps]_vars

\* ------------------------------------------------------------------ schema migration
\* The bookmarks table in the file at DB_PATH across process runs: its columns,
\* its rows (a row holds the columns the table has), and whether this process
\* has opened its connection.
\* A row of the table as it was before the per-mode columns.
LegacyRow(chapter) == [present |-> TRUE, chapter |-> chapter]

\* ALTER TABLE bookmarks ADD COLUMN col ... NOT NULL DEFAULT dflt
AddColumn(t, col, dflt) ==
  [cols |-> t.cols \cup {col},
   db |-> [u \in DOMAIN t.db |->
             IF t.db[u].present
               THEN [f \in (DOMAIN t.db[u]) \cup {col} |->
                       IF f = col THEN dflt ELSE t.db[u][f]]
               ELSE t.db[u]]]

\* UPDATE bookmarks SET chapter_regular = chapter
SeedRegular(t) ==
  [t EXCEPT !.db = [u \in DOMAIN t.db |->
                      IF t.db[u].present
                        THEN [t.db[u] EXCEPT !.chapter_regular = t.db[u].chapter]
                        ELSE t.db[u]]]

\* Mutant: the new column is added and keeps its default.
migrate_bookmarks_schema_no_seed(t) ==
  LET t1 == IF "chapter_regular" \notin t.cols
              THEN AddColumn(t, "chapter_regular", 1) ELSE t
      t2 == IF "chapter_monthly" \notin t.cols
              THEN AddColumn(t1, "chapter_monthly", 1) ELSE t1
      t3 == IF "chapter_weekly" \notin t.cols
              THEN AddColumn(t2, "chapter_weekly", 1) ELSE t2
  IN  IF "current_mode" \notin t.cols
        THEN AddColumn(t3, "current_mode", "regular") ELSE t3

\* _migrate_bookmarks_schema: t.cols is what PRAGMA table_info lists.
migrate_bookmarks_schema(t) ==
  LET t1 == IF "chapter_regular" \notin t.cols
              THEN SeedRegular(AddColumn(t, "chapter_regular", 1)) ELSE t
      t2 == IF "chapter_monthly" \notin t.cols
              THEN AddColumn(t1, "chapter_monthly", 1) ELSE t1
      t3 == IF "chapter_weekly" \notin t.cols
              THEN AddColumn(t2, "chapter_weekly", 1) ELSE t2
  IN  IF "current_mode" \notin t.cols
        THEN AddColumn(t3, "current_mode", "regular") ELSE t3

\* get_conn: the first call of a process connects, creates the table when the
\* file has none (cols = {}) and migrates; later calls return the connection.
get_conn(c, t) ==
  IF c THEN t
  ELSE migrate_bookmarks_schema(IF t.cols = {} THEN [t EXCEPT !.cols = AllCols] ELSE t)

\* The first store call of a process, a read (get_current_mode / get_chapter).
GetConnCall ==
  /\ ~conn
  /\ LET t == get_conn(conn, [cols |-> cols, db |-> db]) IN
       /\ cols' = t.cols
       /\ db' = t.db
  /\ conn' = TRUE
  /\ last' = [op |-> "get_conn", user |-> 0, n |-> 0, mode |-> "", text |-> << >>]
  /\ sent' = << >>
  /\ requests' = 0
  /\ writes' = 0
  /\ UNCHANGED << awaiting_goto, tehillim_cache, ps119_parts, data_file, parts_file,
                  ADMIN_USER_ID, started, steps, tasks, call, result >>

\* A bookmark write of a navigation; it goes through get_conn like every store call.
StoreWrite(user, chapter, mode) ==
  /\ steps < MaxSteps
  /\ steps' = steps + 1
  /\ LET t == get_conn(conn, [cols |-> cols, db |-> db]) IN
       /\ cols' = t.cols
       /\ db' = set_chapter(t.db, user, chapter, mode)
  /\ conn' = TRUE
  /\ last' = [op |-> "store_write", user |-> user, n |-> chapter, mode |-> mode,
              text |-> << >>]
  /\ sent' = << >>
  /\ requests' = 0
  /\ writes' = 1
  /\ UNCHANGED << awaiting_goto, tehillim_cache, ps119_parts, data_file, parts_file,
                  ADMIN_USER_ID, started, tasks, call, result >>

\* The process ends; the next one starts with _conn = None.
Exit ==
  /\ conn
  /\ conn' = FALSE
  /\ last' = [op |-> "exit", user |-> 0, n |-> 0, mode |-> "", text |-> << >>]
  /\ sent' = << >>
  /\ requests' = 0
  /\ writes' = 0
  /\ UNCHANGED << db, cols, awaiting_goto, tehillim_cache, ps119_parts, data_file,
                  parts_file, ADMIN_USER_ID, started, steps, tasks, call, result >>

\* The tables a process can find: none, the legacy one, one to which an
\* earlier run has added chapter_regular only, and the current one.
FoundTables ==
  { [cols |-> {}, db |-> [u \in Users |-> NoRow]] }
    \cup { [cols |-> LegacyCols, db |-> d] :
             d \in [Users -> {NoRow, LegacyRow(42), LegacyRow(MAX_CHAPTER)}] }
    \cup { [cols |-> LegacyCols \cup {"chapter_regular"},
            db |-> [u \in Users |-> [present |-> TRUE, chapter |-> 42,
                                     chapter_regular |-> 42]]] }
    \cup { [cols |-> AllCols, db |-> [u \in Users |-> Row(50, 10, 5, "weekly")]] }

InitMigrate ==
  /\ \E t \in FoundTables : cols = t.cols /\ db = t.db
  /\ conn = FALSE
  /\ awaiting_goto = [u \in Users |-> FALSE]
  /\ tehillim_cache = EmptyDict
  /\ ps119_parts = EmptyDict
  /\ data_file = NoFile
  /\ parts_file = NoFile
  /\ ADMIN_USER_ID = ""
  /\ started = TRUE
  /\ sent = << >>
  /\ last = [op |-> "init", user |-> 0, n |-> 0, mode |-> "", text |-> << >>]
  /\ steps = 0
  /\ requests = 0
  /\ writes = 0
  /\ tasks = NoTasks
  /\ call = NoCall
  /\ result = << >>

NextMigrate ==
  \/ GetConnCall
  \/ \E u \in Users, c \in ChapterArgs, m \in Modes : StoreWrite(u, c, m)
  \/ Exit

SpecMigrate == InitMigrate /\ [][NextMigrate]_vars

\* ------------------------------------------------------------------ pure functions
\* The schedule tables and the text utilities applied to arguments on their
\* own: call is the function and its arguments, result what it returned. They
\* keep no state, so a behaviour holds one application.
PureCall(fn, arg, res) ==
  /\ call = NoCall
  /\ call' = [fn |-> fn, arg |-> arg]
  /\ result' = res
  /\ UNCHANGED << db, awaiting_goto, tehillim_cache, ps119_parts, data_file,
                  parts_file, ADMIN_USER_ID, started, sent, last, steps, requests,
                  writes, tasks, conn, cols >>

\* ch_from, ch_to = DAILY_SPLIT[day]
MonthlySlot(day) == PureCall("DAILY_SPLIT", day, DAILY_SPLIT[day])

\* ch_from, ch_to = WEEKLY_SPLIT[weekday]
WeeklySlot(weekday) == PureCall("WEEKLY_SPLIT", weekday, WEEKLY_SPLIT[weekday])

\* ------------------------------------------------------------------ split_to_chunks
\* Texts are sequences of characters; a list of strings is a sequence of those.
LineBreaks == {"\n", "\r"}

\* "".join(parts)
RECURSIVE Join(_)
Join(parts) == IF parts = << >> THEN << >> ELSE Head(parts) \o Join(Tail(parts))

\* text.splitlines(keepends=True): a line ends with "\n", "\r" or "\r\n" and
\* keeps it; a last line without a line break is a line too.
RECURSIVE SplitLines(_, _, _)
SplitLines(s, cur, lines) ==
  IF s = << >> THEN (IF cur = << >> THEN lines ELSE Append(lines, cur))
  ELSE IF Head(s) = "\r" /\ Len(s) >= 2 /\ s[2] = "\n"
    THEN SplitLines(Tail(Tail(s)), << >>, Append(lines, cur \o << "\r", "\n" >>))
  ELSE IF Head(s) \in LineBreaks
    THEN SplitLines(Tail(s), << >>, Append(lines, Append(cur, Head(s))))
  ELSE SplitLines(Tail(s), Append(cur, Head(s)), lines)

splitlines(text) == SplitLines(text, << >>, << >>)

\* The loop of split_to_chunks over the lines left, with chunks, buf and count.
RECURSIVE SplitLoop(_, _, _, _, _)
SplitLoop(lines, limit, chunks, buf, count) ==
  IF lines = << >> THEN [chunks |-> chunks, buf |-> buf]
  ELSE LET line == Head(lines) IN
         IF count + Len(line) > limit /\ buf # << >>
           THEN SplitLoop(Tail(lines), limit, Append(chunks, Join(buf)),
                          << line >>, Len(line))
           ELSE SplitLoop(Tail(lines), limit, chunks, Append(buf, line),
                          count + Len(line))

\* Mutant: the text is cut every limit characters.
split_to_chunks_fixed(text, limit) ==
  IF text = << >> THEN << text >>
  ELSE [i \in 1..((Len(text) + limit - 1) \div limit) |->
          SubSeq(text, (i - 1) * limit + 1, Min(i * limit, Len(text)))]

split_to_chunks(text, limit) ==
  LET r == SplitLoop(splitlines(text), limit, << >>, << >>, 0)
      chunks == IF r.buf # << >> THEN Append(r.chunks, Join(r.buf)) ELSE r.chunks
  IN  IF chunks # << >> THEN chunks ELSE << text >>

\* The texts and limits split_to_chunks is applied to.
MaxTextLen == 5

SplitChars == {"a", "\n", "\r"}

SplitTexts == UNION {[1..n -> SplitChars] : n \in 0..MaxTextLen}

SplitLimits == {1, 2, 3}

SplitToChunks(text, limit) ==
  PureCall("split_to_chunks", << text, limit >>, split_to_chunks(text, limit))

\* ------------------------------------------------------------------ to_hebrew_numeral
\* A numeral is the sequence of its letters, a letter its name; the three
\* lists are indexed from 0 in the code, from 1 here.
units == << "", "alef", "bet", "gimel", "dalet", "he", "vav", "zayin", "het", "tet" >>

tens == << "", "yod", "kaf", "lamed", "mem", "nun", "samekh", "ayin", "pe", "tsadi" >>

hundreds == << "", "qof", "resh", "shin", "tav" >>

\* str(n) of any integer.
str_int(n) == IF n < 0 THEN "-" \o str(0 - n) ELSE str(n)

\* Mutant: 15 and 16 are written like every other number, yod-he and yod-vav.
to_hebrew_numeral_plain(n0) ==
  IF n0 <= 0 THEN str_int(n0)
  ELSE LET h == n0 \div 100
           parts1 == IF h # 0 THEN << hundreds[h + 1] >> ELSE << >>
           n == n0 % 100
           t == n \div 10
           parts2 == IF t # 0 THEN Append(parts1, tens[t + 1]) ELSE parts1
           u == n % 10
           parts3 == IF u # 0 THEN Append(parts2, units[u + 1]) ELSE parts2
       IN  IF parts3 # << >> THEN parts3 ELSE << "alef" >>

to_hebrew_numeral(n0) ==
  IF n0 <= 0 THEN str_int(n0)
  ELSE LET h == n0 \div 100
           parts1 == IF h # 0 THEN << hundreds[h + 1] >> ELSE << >>
           n1 == n0 % 100
           parts2 == IF n1 = 15 THEN parts1 \o << "tet", "vav" >>
                     ELSE IF n1 = 16 THEN parts1 \o << "tet", "zayin" >>
                     ELSE parts1
           n == IF n1 = 15 \/ n1 = 16 THEN 0 ELSE n1
           t == n \div 10
           parts3 == IF t # 0 THEN Append(parts2, tens[t + 1]) ELSE parts2
           u == n % 10
           parts4 == IF u # 0 THEN Append(parts3, units[u + 1]) ELSE parts3
       IN  IF parts4 # << >> THEN parts4 ELSE << "alef" >>

\* The numbers to_hebrew_numeral is applied to: chapters, and a few n <= 0.
NumeralInputs == (0 - 3)..MAX_CHAPTER

ToHebrewNumeral(n) == PureCall("to_hebrew_numeral", n, to_hebrew_numeral(n))

\* ------------------------------------------------------------------ clean_sefaria_text
\* A character outside ASCII is written as its code point: "U+05BD" (meteg,
\* one of the marks of [\u0591-\u05AF\u05BD\u05BF]), "U+05BE" (maqaf),
\* "U+05C0" (paseq), "U+00A0", "U+2009" (special spaces).
Marks == {"U+05BD"}

SpecialSpaces == {"U+2009", "U+200A", "U+202F", "U+00A0"}

\* The named character references html.unescape knows, as far as the letters
\* of the texts below can spell them, with and without the semicolon.
EntityNames ==
  { << "a", "m", "p", ";" >>, << "a", "m", "p" >>, << "l", "t", ";" >>, << "l", "t" >>,
    << "g", "t", ";" >>, << "g", "t" >>,
    << "n", "b", "s", "p", ";" >>, << "n", "b", "s", "p" >> }

EntityChar(name) ==
  IF name[1] = "a" THEN "&"
  ELSE IF name[1] = "l" THEN "<"
  ELSE IF name[1] = "g" THEN ">"
  ELSE "U+00A0"

\* How many characters at the head of s are in chars (in = TRUE) or are
\* not in chars (in = FALSE), up to max.
RECURSIVE RunLength(_, _, _, _)
RunLength(s, in, chars, max) ==
  IF s = << >> \/ max = 0 \/ (Head(s) \in chars) # in THEN 0
  ELSE 1 + RunLength(Tail(s), in, chars, max - 1)

\* re.sub(r"(?i)<br\s*/?>", "\n", raw)
BrMatch(s) ==
  IF Len(s) >= 4 /\ s[1] = "<" /\ s[2] \in {"b", "B"} /\ s[3] \in {"r", "R"}
    THEN LET ws == RunLength(SubSeq(s, 4, Len(s)), TRUE, Whitespace, Len(s))
             slash == IF 3 + ws < Len(s) /\ s[4 + ws] = "/" THEN 1 ELSE 0
             end == 4 + ws + slash
         IN  IF end <= Len(s) /\ s[end] = ">" THEN end ELSE 0
    ELSE 0

RECURSIVE ReplaceBr(_)
ReplaceBr(s) ==
  IF s = << >> THEN << >>
  ELSE IF BrMatch(s) > 0
    THEN << "\n" >> \o ReplaceBr(SubSeq(s, BrMatch(s) + 1, Len(s)))
  ELSE << Head(s) >> \o ReplaceBr(Tail(s))

\* re.sub(r"<[^>]+>", "", text): from a "<", everything up to the next ">"
\* goes, if at least one character lies between them.
RECURSIVE RemoveTags(_)
RemoveTags(s) ==
  IF s = << >> THEN << >>
  ELSE LET inner == RunLength(Tail(s), FALSE, {">"}, Len(s)) IN
         IF Head(s) = "<" /\ inner >= 1 /\ inner + 2 <= Len(s)
           THEN RemoveTags(SubSeq(s, inner + 3, Len(s)))
           ELSE << Head(s) >> \o RemoveTags(Tail(s))

\* html.unescape: "&" followed by a name of 1..32 characters other than
\* tab, newline, form feed, space, "<", "&", "#", ";" and an optional ";".
\* A known name gives its character; otherwise the longest known prefix of
\* two or more characters does, the rest of the name staying; otherwise the
\* text stays. (Numeric references have no character "#" in the texts below.)
NameEnds == {"\t", "\n", "\f", " ", "<", "&", "#", ";"}

replace_charref(name) ==
  IF name \in EntityNames THEN << EntityChar(name) >>
  ELSE LET xs == {x \in 2..(Len(name) - 1) : SubSeq(name, 1, x) \in EntityNames} IN
         IF xs # {}
           THEN LET x == CHOOSE y \in xs : \A z \in xs : z <= y IN
                  << EntityChar(name) >> \o SubSeq(name, x + 1, Len(name))
           ELSE << "&" >> \o name

RECURSIVE unescape(_)
unescape(s) ==
  IF s = << >> THEN << >>
  ELSE IF Head(s) # "&" THEN << Head(s) >> \o unescape(Tail(s))
  ELSE LET rest == Tail(s)
           k == RunLength(rest, FALSE, NameEnds, 32)
           n == IF k < Len(rest) /\ rest[k + 1] = ";" THEN k + 1 ELSE k
       IN  IF k = 0 THEN << "&" >> \o unescape(rest)
           ELSE replace_charref(SubSeq(rest, 1, n))
                  \o unescape(SubSeq(rest, n + 1, Len(rest)))

\* re.sub(r"[ \t]+", " ", text)
Blanks == {" ", "\t"}

RECURSIVE CollapseBlanks(_)
CollapseBlanks(s) ==
  IF s = << >> THEN << >>
  ELSE IF Head(s) \in Blanks
    THEN << " " >> \o CollapseBlanks(SubSeq(s, RunLength(s, TRUE, Blanks, Len(s)) + 1, Len(s)))
  ELSE << Head(s) >> \o CollapseBlanks(Tail(s))

\* "\n".join(line.rstrip() for line in text.splitlines())
WithoutBreak(line) ==
  LET n == Len(line) IN
    IF n >= 2 /\ line[n - 1] = "\r" /\ line[n] = "\n" THEN SubSeq(line, 1, n - 2)
    ELSE IF n >= 1 /\ line[n] \in LineBreaks THEN SubSeq(line, 1, n - 1)
    ELSE line

RECURSIVE JoinLines(_)
JoinLines(lines) ==
  IF lines = << >> THEN << >>
  ELSE IF Len(lines) = 1 THEN rstrip(WithoutBreak(lines[1]))
  ELSE rstrip(WithoutBreak(Head(lines))) \o << "\n" >> \o JoinLines(Tail(lines))

Without(s, chars) == SelectSeq(s, LAMBDA c : c \notin chars)

Replaced(s, chars, by) == [i \in 1..Len(s) |-> IF s[i] \in chars THEN by ELSE s[i]]

\* Mutant: maqaf becomes a space only after the lines were stripped.
clean_sefaria_text_maqaf_last(raw) ==
  LET t1 == ReplaceBr(raw)
      t2 == RemoveTags(t1)
      t3 == unescape(t2)
      t4 == Without(t3, Marks)
      t5 == Without(t4, {"U+05C0"})
      t7 == Without(t5, {"|"})
      t8 == Replaced(t7, SpecialSpaces, " ")
      t9 == CollapseBlanks(t8)
  IN  Replaced(strip(JoinLines(splitlines(t9))), {"U+05BE"}, " ")

clean_sefaria_text(raw) ==
  LET t1 == ReplaceBr(raw)
      t2 == RemoveTags(t1)
      t3 == unescape(t2)
      t4 == Without(t3, Marks)
      t5 == Without(t4, {"U+05C0"})
      t6 == Replaced(t5, {"U+05BE"}, " ")
      t7 == Without(t6, {"|"})
      t8 == Replaced(t7, SpecialSpaces, " ")
      t9 == CollapseBlanks(t8)
  IN  strip(JoinLines(splitlines(t9)))

\* The raw verses clean_sefaria_text is applied to: up to MaxTokens pieces,
\* each an entity escape, a part of one, or a single character.
MaxTokens == 3

CleanTokens ==
  { << "&", "a", "m", "p", ";" >>, << "&", "l", "t", ";" >>, << "&", "g", "t", ";" >>,
    << "l", "t", ";" >>, << "&" >>, << "a" >>, << " " >>, << "\t" >>, << "\n" >>,
    << "U+05BD" >>, << "U+05BE" >>, << "U+05C0" >>, << "|" >>, << "U+00A0" >>,
    << "<" >>, << ">" >> }

CleanTexts == {Join(ts) : ts \in UNION {[1..n -> CleanTokens] : n \in 0..MaxTokens}}

CleanSefariaText(raw) == PureCall("clean_sefaria_text", raw, clean_sefaria_text(raw))

InitPure ==
  /\ db = [u \in Users |-> NoRow]
  /\ awaiting_goto = [u \in Users |-> FALSE]
  /\ tehillim_cache = EmptyDict
  /\ ps119_parts = EmptyDict
  /\ data_file = NoFile
  /\ parts_file = NoFile
  /\ ADMIN_USER_ID = ""
  /\ started = TRUE
  /\ sent = << >>
  /\ last = [op |-> "init", user |-> 0, n |-> 0, mode |-> "", text |-> << >>]
  /\ steps = 0
  /\ requests = 0
  /\ writes = 0
  /\ tasks = NoTasks
  /\ conn = TRUE
  /\ cols = AllCols
  /\ call = NoCall
  /\ result = << >>

NextPure ==
  /\ call = NoCall
  /\ \/ \E day \in Days : MonthlySlot(day)
     \/ \E weekday \in Weekdays : WeeklySlot(weekday)
     \/ \E text \in SplitTexts, limit \in SplitLimits : SplitToChunks(text, limit)
     \/ \E n \in NumeralInputs : ToHebrewNumeral(n)
     \/ \E raw \in CleanTexts : CleanSefariaText(raw)

SpecPure == InitPure /\ [][NextPure]_vars

\* ------------------------------------------------------------------ readers in flight
\* Handlers of several users that read the text cache, as coroutines on the
\* one event loop, with the bulk refresh among them. load_tehillim, the
\* builders and download_all_texts hold no await: each runs to its end inside
\* one segment, and another coroutine runs only where a handler awaits the
\* transport (q.answer, edit_nav_message, reply_text).
MaxReaders == 3

ReadOps == {"cb_next", "cb_daily"}

ReaderOps == ReadOps \cup {"cmd_load_texts"}

\* The Hebrew day the monthly readers run on: its first chapter is 10.
ReaderDay == 2

\* A coroutine: its handler and user, where it is suspended, and, once it has
\* called load_tehillim, the mapping the call returned, whether the call found
\* the cache empty and loaded, and the mapping file as it was then.
Reader(op, user) ==
  [op |-> op, user |-> user, pc |-> "start", data |-> EmptyDict, loaded |-> FALSE,
   file |-> NoFile]

\* What reader t does from where it is suspended up to its next await:
\*   next button     start -(await q.answer())-> answered:
\*                   build_chapter_message -(await edit)-> edit -> done
\*   monthly button  start -(await q.answer())-> answered:
\*                   build_daily_message_for_user -(await edit)-> edit -> done
\*   /load_texts     start: not the admin: -(await reply)-> done; the admin:
\*                   -(await reply)-> loading: download_all_texts and, if it
\*                   went through, both caches emptied -(await reply)-> done
ReaderSegment(t, d, cache, parts, file, pfile, admin, remote) ==
  LET u == t.user
      same == [task |-> t, db |-> d, cache |-> cache, parts |-> parts, file |-> file,
               pfile |-> pfile, sent |-> << >>, writes |-> 0, requests |-> 0]
      read == [t EXCEPT !.pc = "edit", !.data = load_tehillim(cache, file),
                        !.loaded = ~DictTruthy(cache), !.file = file]
  IN  IF t.op \in ReadOps /\ t.pc = "start" THEN
        [same EXCEPT !.task = [t EXCEPT !.pc = "answered"]]
      ELSE IF t.op = "cb_next" /\ t.pc = "answered" THEN
        LET mode == get_current_mode(d, u)
            chapter == normalize_chapter(get_chapter(d, u, mode) + 1)
            r == build_chapter_message(d, cache, file, u, mode, chapter)
        IN  [same EXCEPT !.task = read, !.db = r.db, !.cache = r.cache,
                         !.sent = r.sent, !.writes = r.writes]
      ELSE IF t.op = "cb_daily" /\ t.pc = "answered" THEN
        LET r == build_daily_message_for_user(d, cache, parts, file, pfile, u,
                                              ReaderDay, remote)
        IN  [same EXCEPT !.task = read, !.db = r.db, !.cache = r.cache,
                         !.parts = r.parts, !.file = r.file, !.sent = r.sent,
                         !.writes = r.writes, !.requests = r.requests]
      ELSE IF t.op = "cmd_load_texts" /\ t.pc = "start" THEN
        IF ~is_admin(admin, u)
          THEN [same EXCEPT !.task = [t EXCEPT !.pc = "done"],
                            !.sent = << Msg("denied", 0, "", "") >>]
          ELSE [same EXCEPT !.task = [t EXCEPT !.pc = "loading"],
                            !.sent = << Msg("loading", 0, "", "") >>]
      ELSE IF t.op = "cmd_load_texts" /\ t.pc = "loading" THEN
        LET got == download_all_texts(file, pfile, remote) IN
          IF ~got.ok
            THEN [same EXCEPT !.task = [t EXCEPT !.pc = "replied"],
                              !.sent = << Msg("load_error", 0, "", "") >>,
                              !.requests = Requests(remote)]
            ELSE [same EXCEPT !.task = [t EXCEPT !.pc = "replied"],
                              !.file = got.data_file, !.pfile = got.parts_file,
                              !.cache = EmptyDict, !.parts = EmptyDict,
                              !.sent = << Msg("saved", 0, "", "") >>,
                              !.requests = Requests(remote)]
      ELSE [same EXCEPT !.task = [t EXCEPT !.pc = "done"]]

\* The remote service as the segment reader t is about to run sees it.
ReaderRemotes(t) ==
  IF t.op = "cb_daily" /\ t.pc = "answered" THEN SingleRemotes(DAILY_SPLIT[ReaderDay][1])
  ELSE IF t.op = "cmd_load_texts" /\ t.pc = "loading" THEN BulkRemotes
  ELSE {[failAt |-> 0, ver |-> "v1"]}

\* An update arrives and its handler coroutine is created.
Arrive(user, op) ==
  /\ started
  /\ Len(tasks.run) < MaxReaders
  /\ tasks' = [tasks EXCEPT !.run = Append(tasks.run, Reader(op, user))]
  /\ last' = [op |-> "arrive", user |-> user, n |-> Len(tasks.run) + 1, mode |-> op,
              text |-> << >>]
  /\ sent' = << >>
  /\ requests' = 0
  /\ writes' = 0
  /\ UNCHANGED << db, awaiting_goto, tehillim_cache, ps119_parts, data_file,
                  parts_file, ADMIN_USER_ID, started, steps, conn, cols, call, result >>

\* The event loop resumes coroutine i up to its next await.
RunReader(i) ==
  /\ i \in 1..Len(tasks.run)
  /\ tasks.run[i].pc # "done"
  /\ \E remote \in ReaderRemotes(tasks.run[i]) :
       LET r == ReaderSegment(tasks.run[i], db, tehillim_cache, ps119_parts, data_file,
                              parts_file, ADMIN_USER_ID, remote)
       IN  /\ tasks' = [tasks EXCEPT !.run[i] = r.task]
           /\ db' = r.db
           /\ tehillim_cache' = r.cache
           /\ ps119_parts' = r.parts
           /\ data_file' = r.file
           /\ parts_file' = r.pfile
           /\ sent' = r.sent
           /\ writes' = r.writes
           /\ requests' = r.requests
           /\ last' = [op |-> r.task.op, user |-> r.task.user, n |-> i,
                       mode |-> r.task.pc, text |-> << >>]
  /\ UNCHANGED << awaiting_goto, ADMIN_USER_ID, started, steps, conn, cols, call, result >>

\* The mapping files the readers start from: none (the startup download
\* failed) and the one a refresh wrote.
ReaderFiles == { NoFile, File(RemoteText["v1"]) }

InitReaders ==
  /\ db = [u \in Users |-> NoRow]
  /\ awaiting_goto = [u \in Users |-> FALSE]
  /\ tehillim_cache = EmptyDict
  /\ ps119_parts = EmptyDict
  /\ data_file \in ReaderFiles
  /\ parts_file = NoFile
  /\ ADMIN_USER_ID = "1"
  /\ started = TRUE
  /\ sent = << >>
  /\ last = [op |-> "init", user |-> 0, n |-> 0, mode |-> "", text |-> << >>]
  /\ steps = 0
  /\ requests = 0
  /\ writes = 0
  /\ tasks = [before |-> << >>, run |-> << >>]
  /\ conn = TRUE
  /\ cols = AllCols
  /\ call = NoCall
  /\ result = << >>

NextReaders ==
  \/ \E u \in Users, op \in ReaderOps : Arrive(u, op)
  \/ \E i \in 1..MaxReaders : RunReader(i)

SpecReaders == InitReaders /\ [][NextReaders]_vars

\* ------------------------------------------------------------------ properties
Pointers(row) == {row.chapter_regular, row.chapter_monthly, row.chapter_weekly}

\* The interaction that led to the state (primed: the one the step performs).
Did(l, ops, u) == l.op \in ops /\ l.user = u

NextOps == {"cmd_next", "cb_next"}

PrevOps == {"cmd_prev", "cb_prev"}

WeeklyOps == {"cmd_weekly", "cb_weekly"}

DailyOps == {"cmd_daily", "cb_daily"}

\* The texts a read would see: the cache as load_tehillim leaves it.
TextOf(cache, file, chapter) == DictGet(load_tehillim(cache, file), chapter)

\* C1: every row's three chapter pointers lie in [1,150], and stay there under
\* set_chapter with any integer argument; get_current_mode gives one of the
\* three modes, regular when the row is missing or its value is invalid.
C1_PointersAndModeInRange ==
  \A u \in Users :
    /\ db[u].present => Pointers(db[u]) \subseteq Chapters
    /\ \A m \in Modes : get_chapter(db, u, m) \in Chapters
    /\ get_current_mode(db, u) \in Modes
    /\ (~db[u].present \/ db[u].current_mode \notin Modes)
         => get_current_mode(db, u) = "regular"
    /\ \A c \in ChapterArgs, m \in Modes :
         Pointers(set_chapter(db, u, c, m)[u]) \subseteq Chapters

\* C1 witness: a prev from chapter 1 has wrapped the current pointer to 150.
C1_Witness ==
  \E u \in Senders :
    /\ Did(last, PrevOps, u)
    /\ db[u].present
    /\ get_chapter(db, u, get_current_mode(db, u)) = MAX_CHAPTER

\* C2 (as claimed): every next (prev) step of a user in mode m with pointer p
\* leaves p+1 (p-1), wrapped at the ends, as the pointer of m.
C2_NextPrevPersist ==
  [][ \A u \in Senders :
        LET m == get_current_mode(db, u)
            p == get_chapter(db, u, m)
        IN  /\ Did(last', NextOps, u)
                 => get_chapter(db', u, m) = (IF p = MAX_CHAPTER THEN 1 ELSE p + 1)
            /\ Did(last', PrevOps, u)
                 => get_chapter(db', u, m) = (IF p = 1 THEN MAX_CHAPTER ELSE p - 1)
    ]_vars

\* C3 (as claimed): a switch to a mode leaves that mode's stored pointer as it
\* was, so that the next after it moves on from the stored value.
C3_SwitchKeepsStoredPointer ==
  [][ \A u \in Senders :
        /\ Did(last', WeeklyOps, u)
             => get_chapter(db', u, "weekly") = get_chapter(db, u, "weekly")
        /\ Did(last', DailyOps, u)
             => get_chapter(db', u, "monthly") = get_chapter(db, u, "monthly")
        /\ Did(last', {"cb_regular"}, u)
             => get_chapter(db', u, "regular") = get_chapter(db, u, "regular")
    ]_vars

\* C3 (amended): a mode switch makes the mode current and leaves the other two
\* modes' pointers alone; the regular switch keeps the regular pointer, the
\* weekly (monthly) trigger overwrites its mode's pointer with the first
\* chapter of the range of the weekday (day); the next button pressed right
\* after a weekly trigger moves the weekly pointer one past that first chapter
\* and no other pointer.
C3_SwitchPointers ==
  [][ \A u \in Senders :
        /\ Did(last', WeeklyOps, u)
             => /\ get_current_mode(db', u) = "weekly"
                /\ get_chapter(db', u, "weekly") = WEEKLY_SPLIT[last'.n][1]
                /\ get_chapter(db', u, "regular") = get_chapter(db, u, "regular")
                /\ get_chapter(db', u, "monthly") = get_chapter(db, u, "monthly")
        /\ Did(last', DailyOps, u)
             => /\ get_current_mode(db', u) = "monthly"
                /\ get_chapter(db', u, "monthly") = DAILY_SPLIT[last'.n][1]
                /\ get_chapter(db', u, "regular") = get_chapter(db, u, "regular")
                /\ get_chapter(db', u, "weekly") = get_chapter(db, u, "weekly")
        /\ Did(last', {"cb_regular"}, u)
             => /\ get_current_mode(db', u) = "regular"
                /\ \A m \in Modes : get_chapter(db', u, m) = get_chapter(db, u, m)
        /\ (Did(last, WeeklyOps, u) /\ Did(last', {"cb_next"}, u))
             => /\ get_chapter(db', u, "weekly") = WEEKLY_SPLIT[last.n][1] + 1
                /\ get_chapter(db', u, "regular") = get_chapter(db, u, "regular")
                /\ get_chapter(db', u, "monthly") = get_chapter(db, u, "monthly")
    ]_vars

\* C3 witness: regular 50, monthly 10, weekly 5; the weekly trigger on weekday 2
\* and the next button have left weekly at 31, regular at 50, monthly at 10.
C3_Witness ==
  \E u \in Senders :
    /\ Did(last, {"cb_next"}, u)
    /\ db[u].current_mode = "weekly"
    /\ db[u].chapter_weekly = 31
    /\ db[u].chapter_regular = 50
    /\ db[u].chapter_monthly = 10

\* C4: set_chapter(user, c, m) creates the row if needed and changes only the
\* pointer of m, to c clamped; set_current_mode(user, m) changes only the
\* current mode; neither touches another user's row, and repeating either
\* write changes nothing more.
C4_WritesTouchOnlyWhatTheyName ==
  [][ \A u \in Users :
        /\ Did(last', {"set_chapter"}, u)
             => /\ db'[u].present
                /\ get_chapter(db', u, last'.mode) = Clamp(last'.n)
                /\ \A m \in Modes \ {last'.mode} :
                     get_chapter(db', u, m) = get_chapter(db, u, m)
                /\ get_current_mode(db', u) = get_current_mode(db, u)
                /\ \A v \in Users \ {u} : db'[v] = db[v]
                /\ set_chapter(db', u, last'.n, last'.mode) = db'
        /\ Did(last', {"set_current_mode"}, u)
             => /\ db'[u].present
                /\ get_current_mode(db', u) = last'.mode
                /\ \A m \in Modes : get_chapter(db', u, m) = get_chapter(db, u, m)
                /\ \A v \in Users \ {u} : db'[v] = db[v]
                /\ set_current_mode(db', u, last'.mode) = db'
    ]_vars

\* C4 witness: a set_chapter on the weekly pointer of a row whose other two
\* pointers and mode are not the defaults.
C4_Witness ==
  \E u \in Users :
    /\ Did(last, {"set_chapter"}, u)
    /\ last.mode = "weekly"
    /\ db[u] = Row(MAX_CHAPTER, 10, 77, "monthly")

\* A goto answer that int() parses to a chapter number in range.
ValidGoto(text) ==
  LET parsed == int(strip(text)) IN parsed.ok /\ 1 <= parsed.n /\ parsed.n <= MAX_CHAPTER

GotoNumber(text) == int(strip(text)).n

\* The step is a free text of user u that arrives while u's goto flag is set.
GotoAnswer(u) == awaiting_goto[u] /\ Did(last', {"on_free_text"}, u)

\* The step is a navigation of user u: next, prev, /start or a valid goto answer.
NavStep(u) ==
  \/ Did(last', NextOps \cup PrevOps \cup {"cmd_start"}, u)
  \/ GotoAnswer(u) /\ ValidGoto(last'.text)

\* The chapter that navigation is to show.
NavTarget(u) ==
  LET p == get_chapter(db, u, get_current_mode(db, u)) IN
    IF last'.op \in NextOps THEN (IF p = MAX_CHAPTER THEN 1 ELSE p + 1)
    ELSE IF last'.op \in PrevOps THEN (IF p = 1 THEN MAX_CHAPTER ELSE p - 1)
    ELSE IF last'.op = "cmd_start" THEN p
    ELSE GotoNumber(last'.text)

\* C5 (as claimed): a navigation whose target chapter has no text emits the
\* placeholder for that chapter and still moves the current mode's pointer to
\* it, as a command and as a button.
C5_MissingTextStillMoves ==
  [][ \A u \in Senders :
        (NavStep(u) /\ Falsy(TextOf(tehillim_cache, data_file, NavTarget(u))))
          => /\ \E i \in 1..Len(sent') :
                  sent'[i].kind = "missing" /\ sent'[i].chapter = NavTarget(u)
             /\ get_chapter(db', u, get_current_mode(db, u)) = NavTarget(u)
    ]_vars

\* C6 (as claimed): a valid goto answer clears the flag and makes the number
\* the pointer of the mode current at that time, the other pointers and the
\* mode staying as they were.
C6_ValidGotoSetsPointer ==
  [][ \A u \in Senders :
        (GotoAnswer(u) /\ ValidGoto(last'.text))
          => LET m == get_current_mode(db, u) IN
               /\ ~awaiting_goto'[u]
               /\ get_chapter(db', u, m) = GotoNumber(last'.text)
               /\ \A m2 \in Modes \ {m} : get_chapter(db', u, m2) = get_chapter(db, u, m2)
               /\ get_current_mode(db', u) = m
    ]_vars

C9_RejectedTextLeavesBookmarks ==
  [][ \A u \in Senders :
        (Did(last', {"on_free_text"}, u) /\ (~awaiting_goto[u] \/ ~ValidGoto(last'.text)))
          => db' = db
    ]_vars

\* C9 witness: a chapter number typed without a goto request, the stored row
\* being 50/10/5.
C9_Witness ==
  \E u \in Senders :
    /\ Did(last, {"on_free_text"}, u)
    /\ last.text = << "2" >>
    /\ ~awaiting_goto[u]
    /\ sent = << >>
    /\ db[u] = Row(50, 10, 5, "regular")

\* C10: when a request of the bulk refresh fails, the refresh reports the error
\* and the mapping files and both caches are what they were, so every chapter
\* reads as before; and from the state in which a refresh failed, it fails and
\* hands the files back untouched whichever chapter k in 1..150 is the failing one.
RefreshBy(u) == Did(last', {"cmd_load_texts"}, u) /\ is_admin(ADMIN_USER_ID, u)

C10_FailedRefreshChangesNothing ==
  [][ \A u \in Senders :
        /\ (RefreshBy(u) /\ last'.n # 0)
             => /\ sent' = << Msg("loading", 0, "", ""), Msg("load_error", 0, "", "") >>
                /\ data_file' = data_file
                /\ parts_file' = parts_file
                /\ tehillim_cache' = tehillim_cache
                /\ ps119_parts' = ps119_parts
                /\ \A k \in Chapters :
                     TextOf(tehillim_cache', data_file', k)
                       = TextOf(tehillim_cache, data_file, k)
        /\ (RefreshBy(u) /\ last'.n = MAX_CHAPTER)
             => \A k \in Chapters :
                  download_all_texts(data_file, parts_file, [failAt |-> k, ver |-> "v2"])
                    = [ok |-> FALSE, data_file |-> data_file, parts_file |-> parts_file]
    ]_vars

\* C10 witness: a refresh failed at chapter 150 while the mapping file of an
\* earlier download existed and the cache was loaded from it.
C10_Witness ==
  \E u \in Senders :
    /\ Did(last, {"cmd_load_texts"}, u)
    /\ last.n = MAX_CHAPTER
    /\ sent = << Msg("loading", 0, "", ""), Msg("load_error", 0, "", "") >>
    /\ data_file.exists
    /\ DOMAIN tehillim_cache = Chapters

\* C11: a bulk refresh that succeeds empties both caches, so the read that
\* follows it sees, for every chapter, the text the refresh wrote to the mapping
\* file and nothing cached earlier; on every other step a loaded cache is what
\* a read returns whatever the file holds, it is not loaded again, and every
\* text it holds stays as it is.
C11_RefreshInvalidatesCache ==
  [][ /\ \A u \in Senders :
           (RefreshBy(u) /\ last'.n = 0)
             => /\ tehillim_cache' = EmptyDict
                /\ ps119_parts' = EmptyDict
                /\ data_file'.exists
                /\ data_file'.data \in {RemoteText[v] : v \in RemoteTexts}
                /\ \A k \in Chapters :
                     TextOf(tehillim_cache', data_file', k) = data_file'.data[k]
                /\ load_ps119_parts(ps119_parts', parts_file') = parts_file'.data
      /\ (DictTruthy(tehillim_cache) /\ ~(\E u \in Senders : RefreshBy(u) /\ last'.n = 0))
           => /\ \A f \in {NoFile, data_file, data_file'} :
                   load_tehillim(tehillim_cache, f) = tehillim_cache
              /\ \A k \in DOMAIN tehillim_cache :
                   /\ k \in DOMAIN tehillim_cache'
                   /\ tehillim_cache'[k] = tehillim_cache[k]
    ]_vars

\* C11 witness: the /next that follows a refresh shows chapter 52 in the edition
\* the refresh stored, the pointer having come from 50 through an earlier read.
C11_Witness ==
  \E u \in Senders :
    /\ Did(last, {"cmd_next"}, u)
    /\ data_file = File(RemoteText["v2"])
    /\ sent = << Msg("chapter", 52, "regular", RemoteText["v2"][52]) >>
    /\ tehillim_cache = RemoteText["v2"]

\* C12: a bulk refresh asked for by a user who is not the configured admin, and
\* by anyone when no admin is configured, gets the denial as its only message,
\* makes no request to the remote service and leaves the mapping files, both
\* caches, every bookmark row and the goto flags as they were.
C12_NonAdminRefreshDenied ==
  [][ \A u \in Senders :
        (Did(last', {"cmd_load_texts"}, u) /\ (ADMIN_USER_ID = "" \/ ADMIN_USER_ID # str(u)))
          => /\ sent' = << Msg("denied", 0, "", "") >>
             /\ requests' = 0
             /\ data_file' = data_file
             /\ parts_file' = parts_file
             /\ tehillim_cache' = tehillim_cache
             /\ ps119_parts' = ps119_parts
             /\ db' = db
             /\ awaiting_goto' = awaiting_goto
    ]_vars

\* C12 witness: the refresh was denied to user 1 while user 2 is the admin, the
\* mapping file being there and the cache loaded from it.
C12_Witness ==
  \E u \in Senders :
    /\ Did(last, {"cmd_load_texts"}, u)
    /\ ADMIN_USER_ID = "2"
    /\ sent = << Msg("denied", 0, "", "") >>
    /\ requests = 0
    /\ data_file.exists
    /\ DOMAIN tehillim_cache = Chapters

\* What a trigger has to leave for user u: mode m current, the pointer of m at
\* chapter first, every other pointer as in d.
TriggerLeaves(d, d2, u, m, first) ==
  /\ get_current_mode(d2, u) = m
  /\ get_chapter(d2, u, m) = first
  /\ \A m2 \in Modes \ {m} : get_chapter(d2, u, m2) = get_chapter(d, u, m2)

\* C13: in every state, the monthly trigger on any day 1..30 (as command and as
\* button, the remote request failing or not) leaves the mode monthly and the
\* monthly pointer at the first chapter of that day's range, and the weekly
\* trigger on any weekday 1..7 leaves the mode weekly and the weekly pointer at
\* the first chapter of that weekday's range, whether the cache or the file
\* holds that chapter or not; the other two pointers stay.
C13_TriggerSetsFirstChapter ==
  \A u \in Senders :
    /\ \A day \in Days :
         \A remote \in SingleRemotes(DAILY_SPLIT[day][1]) :
           /\ TriggerLeaves(db, cmd_daily(db, tehillim_cache, ps119_parts, data_file,
                                         parts_file, u, day, remote).db,
                            u, "monthly", DAILY_SPLIT[day][1])
           /\ TriggerLeaves(db, build_daily_message_for_user(db, tehillim_cache,
                                         ps119_parts, data_file, parts_file, u, day,
                                         remote).db,
                            u, "monthly", DAILY_SPLIT[day][1])
    /\ \A weekday \in Weekdays :
         TriggerLeaves(db, build_weekly_message_for_user(db, tehillim_cache, data_file,
                                                        u, weekday).db,
                       u, "weekly", WEEKLY_SPLIT[weekday][1])

\* C13 witness: the /daily command on day 2 found no text for chapter 10, the
\* request for it failed, and the row it created has the mode monthly and the
\* monthly pointer at 10, the other two at their default.
C13_Witness ==
  \E u \in Senders :
    /\ Did(last, {"cmd_daily"}, u)
    /\ last.n = 2
    /\ requests = 1
    /\ sent = << Msg("daily", 10, "monthly", MissingText(10)) >>
    /\ db[u] = [NewRow EXCEPT !.chapter_monthly = 10, !.current_mode = "monthly"]

\* The table a handler leaves when it runs alone from start to return.
RECURSIVE RunAlone(_, _, _, _)
RunAlone(t, d, cache, file) ==
  IF t.pc = "done" THEN d
  ELSE LET r == Segment(t, d, cache, file) IN RunAlone(r.task, r.db, r.cache, file)

\* The table the handlers of run leave when they run alone one after another
\* in the order given.
RECURSIVE RunSerially(_, _, _, _, _)
RunSerially(run, order, d, cache, file) ==
  IF order = << >> THEN d
  ELSE RunSerially(run, Tail(order),
                   RunAlone(Task(run[Head(order)].op, run[Head(order)].user),
                            d, cache, file),
                   cache, file)

Orders(n) == {o \in [1..n -> 1..n] : \A i, j \in 1..n : o[i] = o[j] => i = j}

AllDone == tasks.run # << >> /\ \A i \in 1..Len(tasks.run) : tasks.run[i].pc = "done"

\* C14: once all the handlers a user started have returned, however they were
\* interleaved at their awaits, the bookmarks table is the one they leave when
\* they run one after another in some order; two next buttons whose chapters
\* have text leave the pointer two chapters on (wrapped at 150).
C14_NoLostUpdate ==
  AllDone =>
    /\ \E o \in Orders(Len(tasks.run)) :
         db = RunSerially(tasks.run, o, tasks.before, tehillim_cache, data_file)
    /\ \A u \in Senders :
         (/\ data_file.exists
          /\ Len(tasks.run) = 2
          /\ \A i \in 1..2 : tasks.run[i].op \in {"cb_next", "cmd_next"}
                               /\ tasks.run[i].user = u)
           => LET m == get_current_mode(tasks.before, u)
                  p == get_chapter(tasks.before, u, m)
              IN  get_chapter(db, u, m) = normalize_chapter(normalize_chapter(p + 1) + 1)

\* C14 witness: a next button was tapped twice, the second handler started
\* while the first was suspended after its write, and the pointer went from
\* 50 to 52.
C14_Witness ==
  /\ AllDone
  /\ Len(tasks.run) = 2
  /\ \A i \in 1..2 : tasks.run[i].op = "cb_next"
  /\ tasks.run[1].chapter = 51
  /\ tasks.run[2].chapter = 52
  /\ last.n = 1
  /\ \E u \in Senders : db[u] = Row(52, 10, 5, "regular")

\* C15: on every table a process can find (legacy, partly or fully migrated,
\* before and after navigation writes) the migration ends with all columns;
\* a row's chapter_regular is its legacy chapter if the column was missing and
\* its stored value otherwise, monthly and weekly are 1 if missing and their
\* stored values otherwise; migrating the result again changes nothing, and a
\* table that has all columns is left as it is. A legacy row with chapter 42
\* becomes 42 / 1 / 1.
C15_MigrationSeedsOnce ==
  LET t == [cols |-> cols, db |-> db]
      m == get_conn(FALSE, t)
  IN  /\ m.cols = AllCols
      /\ \A u \in Users :
           db[u].present =>
             /\ m.db[u].present
             /\ m.db[u].chapter_regular =
                  (IF "chapter_regular" \in cols THEN db[u].chapter_regular
                   ELSE db[u].chapter)
             /\ \A c \in {"chapter_monthly", "chapter_weekly"} :
                  m.db[u][c] = (IF c \in cols THEN db[u][c] ELSE 1)
             /\ m.db[u].chapter = db[u].chapter
      /\ \A u \in Users : ~db[u].present => ~m.db[u].present
      /\ get_conn(FALSE, m) = m
      /\ cols = AllCols => m = t
      /\ \A u \in Users :
           db[u] = LegacyRow(42) => m.db[u] = Row(42, 1, 1, "regular")

\* C15 witness: a legacy row 42 was migrated, a navigation moved its monthly
\* pointer to 77, the process was restarted and connected again: the row is
\* 42 / 77 / 1.
C15_Witness ==
  /\ last.op = "get_conn"
  /\ steps = 1
  /\ conn
  /\ cols = AllCols
  /\ \E u \in Users : db[u] = Row(42, 77, 1, "regular")

\* The days whose range is the single chapter 119.
Ps119Days == {day \in Days : DAILY_SPLIT[day] = << 119, 119 >>}

\* The segment cache and segments file a monthly trigger can meet: those of the
\* state, and, the cache not loaded, no file, the file the refresh writes, and
\* a file that lacks the segments of days 27 and 28 and has an empty one for 26.
PartsCases ==
  { [cache |-> ps119_parts, file |-> parts_file] }
    \cup { [cache |-> EmptyDict, file |-> f] :
             f \in { NoFile, File(PartsPlaceholder),
                     File([k \in {25, 26} |-> IF k = 25 THEN "part:25" ELSE ""]) } }

\* What the trigger result r has to be on a Psalm 119 day: the pointer at 119
\* in mode monthly; the day's segment as the body if there is one (seg), and
\* otherwise the message of chapter 119 itself: its stored text (full), or the
\* text the remote service returns for it, or the missing-text marker.
SegmentRule(r, u, seg, full, remote) ==
  /\ get_current_mode(r.db, u) = "monthly"
  /\ get_chapter(r.db, u, "monthly") = 119
  /\ ~Falsy(seg) => /\ r.sent = << Msg("daily_part", 119, "monthly", seg) >>
                    /\ r.requests = 0
  /\ Falsy(seg) =>
       r.sent = << Msg("daily", 119, "monthly",
                       IF ~Falsy(full) THEN full
                       ELSE IF fetch_psalm(119, remote) # FetchError
                         THEN fetch_psalm(119, remote)
                       ELSE MissingText(119)) >>

\* C16: in every state, on each of the days 25..28, as command and as button:
\* when the segments file exists and holds a non-empty segment for the day,
\* the body is that segment and not the text of chapter 119; when there is no
\* file or no segment for the day, the message is that of chapter 119 with
\* its full text (stored, or else fetched; the missing-text marker when there
\* is neither); the monthly pointer is 119 either way.
C16_Ps119SegmentPreferred ==
  \A u \in Senders, day \in Ps119Days, pc \in PartsCases :
    \A remote \in SingleRemotes(119) :
      LET loaded == IF DictTruthy(pc.cache) THEN pc.cache ELSE pc.file.data
          seg == IF pc.file.exists THEN DictGet(loaded, day) ELSE None
          full == TextOf(tehillim_cache, data_file, 119)
      IN  /\ SegmentRule(cmd_daily(db, tehillim_cache, pc.cache, data_file, pc.file,
                                   u, day, remote),
                         u, seg, full, remote)
          /\ SegmentRule(build_daily_message_for_user(db, tehillim_cache, pc.cache,
                                   data_file, pc.file, u, day, remote),
                         u, seg, full, remote)

\* C16 witness: the monthly button on day 25, with the segments file and the
\* full text of chapter 119 both there, showed the segment of day 25 and left
\* the monthly pointer at 119.
C16_Witness ==
  \E u \in Senders :
    /\ Did(last, {"cb_daily"}, u)
    /\ last.n = 25
    /\ parts_file.exists
    /\ TextOf(tehillim_cache, data_file, 119) = RemoteText["v1"][119]
    /\ sent = << Msg("daily_part", 119, "monthly", PartsPlaceholder[25]) >>
    /\ get_chapter(db, u, "monthly") = 119

\* The slots of table split whose range holds chapter c.
SlotsOf(split, c) == {k \in 1..Len(split) : split[k][1] <= c /\ c <= split[k][2]}

\* Every slot of split is a range from <= to, and every chapter 1..150 is in
\* exactly one slot.
Partitions(split) ==
  /\ \A k \in 1..Len(split) : split[k][1] <= split[k][2]
  /\ \A c \in Chapters : Cardinality(SlotsOf(split, c)) = 1

\* C17 (as claimed): both tables partition 1..150, and every range a lookup
\* returns overlaps no other slot's range.
C17_TablesPartition ==
  /\ Len(DAILY_SPLIT) = 30 /\ Partitions(DAILY_SPLIT)
  /\ Len(WEEKLY_SPLIT) = 7 /\ Partitions(WEEKLY_SPLIT)
  /\ WEEKLY_SPLIT[1] = << 1, 29 >> /\ WEEKLY_SPLIT[7] = << 120, 150 >>
  /\ call.fn = "DAILY_SPLIT"
       => \A c \in result[1]..result[2] : SlotsOf(DAILY_SPLIT, c) = {call.arg}
  /\ call.fn = "WEEKLY_SPLIT"
       => \A c \in result[1]..result[2] : SlotsOf(WEEKLY_SPLIT, c) = {call.arg}

\* C17 (amended): the weekly table (7 slots) partitions 1..150, weekday 1 being
\* (1,29) and weekday 7 (120,150). The monthly table (30 slots) has from <= to
\* in every slot, starts at 1, ends at 150 and every chapter is in some slot;
\* each slot starts right after the previous one ends, except that the days
\* 25..28 all hold the one range (119,119): chapter 119 is in exactly those
\* four slots, every other chapter in exactly one. Every lookup returns the
\* range of its slot.
C17_TablesCover ==
  /\ Len(WEEKLY_SPLIT) = 7 /\ Partitions(WEEKLY_SPLIT)
  /\ WEEKLY_SPLIT[1] = << 1, 29 >> /\ WEEKLY_SPLIT[7] = << 120, 150 >>
  /\ Len(DAILY_SPLIT) = 30
  /\ \A day \in Days : DAILY_SPLIT[day][1] <= DAILY_SPLIT[day][2]
  /\ DAILY_SPLIT[1][1] = 1 /\ DAILY_SPLIT[30][2] = MAX_CHAPTER
  /\ \A day \in Days \ {30} :
       \/ DAILY_SPLIT[day + 1][1] = DAILY_SPLIT[day][2] + 1
       \/ DAILY_SPLIT[day] = << 119, 119 >> /\ DAILY_SPLIT[day + 1] = << 119, 119 >>
  /\ \A c \in Chapters :
       SlotsOf(DAILY_SPLIT, c) # {}
         /\ (Cardinality(SlotsOf(DAILY_SPLIT, c)) > 1 <=> c = 119)
  /\ SlotsOf(DAILY_SPLIT, 119) = 25..28
  /\ call.fn = "DAILY_SPLIT"
       => /\ result = DAILY_SPLIT[call.arg]
          /\ \A c \in result[1]..result[2] :
               call.arg \in SlotsOf(DAILY_SPLIT, c)
                 /\ (c # 119 => SlotsOf(DAILY_SPLIT, c) = {call.arg})
  /\ call.fn = "WEEKLY_SPLIT"
       => /\ result = WEEKLY_SPLIT[call.arg]
          /\ \A c \in result[1]..result[2] : SlotsOf(WEEKLY_SPLIT, c) = {call.arg}

\* C17 witness: the lookup of day 26 gave (119,119), the range day 25 has too.
C17_Witness ==
  /\ call = [fn |-> "DAILY_SPLIT", arg |-> 26]
  /\ result = << 119, 119 >>
  /\ DAILY_SPLIT[25] = result

\* The lines of all the chunks, in order.
RECURSIVE LinesOf(_)
LinesOf(chunks) ==
  IF chunks = << >> THEN << >> ELSE splitlines(Head(chunks)) \o LinesOf(Tail(chunks))

\* C18: for every text and limit >= 1, split_to_chunks returns at least one
\* chunk; the chunks joined are the text; the lines of the chunks, taken chunk
\* by chunk, are the lines of the text (no line is cut); a chunk longer than
\* the limit is a single line; and a text no longer than the limit, the empty
\* text included, comes back as the one chunk.
C18_SplitToChunks ==
  call.fn = "split_to_chunks" =>
    LET text == call.arg[1]
        limit == call.arg[2]
    IN  /\ Len(result) >= 1
        /\ Join(result) = text
        /\ LinesOf(result) = splitlines(text)
        /\ \A i \in 1..Len(result) :
             Len(result[i]) > limit => Len(splitlines(result[i])) = 1
        /\ Len(text) <= limit => result = << text >>

\* C18 witness: with limit 2, a line of three characters and two short lines
\* came back as the long line alone and the two short ones together.
C18_Witness ==
  /\ call = [fn |-> "split_to_chunks", arg |-> << << "a", "a", "\n", "a", "\n" >>, 2 >>]
  /\ result = << << "a", "a", "\n" >>, << "a", "\n" >> >>

\* The value of a letter, and of a numeral the sum of its letters' values.
LetterValue(l) ==
  IF \E i \in 2..10 : units[i] = l THEN (CHOOSE i \in 2..10 : units[i] = l) - 1
  ELSE IF \E i \in 2..10 : tens[i] = l THEN 10 * ((CHOOSE i \in 2..10 : tens[i] = l) - 1)
  ELSE 100 * ((CHOOSE i \in 2..5 : hundreds[i] = l) - 1)

RECURSIVE NumeralValue(_)
NumeralValue(s) == IF s = << >> THEN 0 ELSE LetterValue(Head(s)) + NumeralValue(Tail(s))

\* The letter of digit k of a list, nothing for 0.
DigitLetter(list, k) == IF k = 0 THEN << >> ELSE << list[k + 1] >>

\* C19: for n in 1..150, to_hebrew_numeral(n) is the hundreds letter, then
\* tet-vav if n mod 100 = 15, tet-zayin if it is 16, and the tens letter and
\* the units letter otherwise; its letters add up to n; yod is never followed
\* by he or by vav. For n <= 0 the result is the decimal string of n.
C19_HebrewNumeral ==
  call.fn = "to_hebrew_numeral" =>
    LET n == call.arg IN
      /\ n <= 0 => result = << "-3", "-2", "-1", "0" >>[n + 4]
      /\ n >= 1 =>
           /\ result = DigitLetter(hundreds, n \div 100)
                         \o (IF n % 100 = 15 THEN << "tet", "vav" >>
                             ELSE IF n % 100 = 16 THEN << "tet", "zayin" >>
                             ELSE DigitLetter(tens, (n % 100) \div 10)
                                    \o DigitLetter(units, n % 10))
           /\ NumeralValue(result) = n
           /\ \A i \in 1..(Len(result) - 1) :
                ~(result[i] = "yod" /\ result[i + 1] \in {"he", "vav"})

\* C19 witness: 116 came out as qof, tet, zayin.
C19_Witness ==
  /\ call = [fn |-> "to_hebrew_numeral", arg |-> 116]
  /\ result = << "qof", "tet", "zayin" >>

\* The text holds a markup tag: something the two tag patterns match.
HasTag(s) == RemoveTags(ReplaceBr(s)) # s

Has(s, c) == \E i \in 1..Len(s) : s[i] = c

SwitchOps == DailyOps \cup WeeklyOps \cup {"cb_regular"}

Transition(u) ==
  \/ Did(last', NextOps \cup PrevOps \cup {"cb_reset"} \cup SwitchOps, u)
  \/ GotoAnswer(u) /\ ValidGoto(last'.text)

\* C21 (as claimed): every transition runs exactly one statement on the
\* bookmarks table and composes exactly one message.
C21_OneWriteOneMessage ==
  [][ \A u \in Senders : Transition(u) => (writes' = 1 /\ Len(sent') = 1) ]_vars

\* C21 (amended): the next and prev buttons run one statement and compose one
\* message; a mode switch (monthly, weekly, back to regular) runs two, the mode
\* and then the pointer, and composes one message; reset runs two, the pointer
\* twice, and answers the button with a notice before its one chapter message;
\* the next and prev commands and a valid goto answer compose one message and
\* run at most one statement, one whenever the message shows the chapter.
C21_WritesAndMessagesPerTransition ==
  [][ \A u \in Senders :
        /\ Did(last', {"cb_next", "cb_prev"}, u) => (writes' = 1 /\ Len(sent') = 1)
        /\ Did(last', SwitchOps, u) => (writes' = 2 /\ Len(sent') = 1)
        /\ Did(last', {"cb_reset"}, u)
             => /\ writes' = 2
                /\ Len(sent') = 2
                /\ sent'[1] = Msg("reset_answer", 1, get_current_mode(db, u), "")
                /\ sent'[2].kind \in {"chapter", "missing"}
        /\ (Did(last', {"cmd_next", "cmd_prev"}, u) \/ (GotoAnswer(u) /\ ValidGoto(last'.text)))
             => /\ Len(sent') = 1
                /\ writes' <= 1
                /\ sent'[1].kind = "chapter" => writes' = 1
    ]_vars

\* C21 witness: the switch back to regular mode wrote the mode and the pointer
\* and composed the one message that shows the chapter.
C21_Witness ==
  \E u \in Senders :
    /\ Did(last, {"cb_regular"}, u)
    /\ writes = 2
    /\ Len(sent) = 1
    /\ sent[1].kind = "chapter"
    /\ db[u].current_mode = "regular"

\* C22 (as claimed): only the bulk refresh a user asks for makes requests to
\* the remote text service.
C22_OnlyRefreshFetches ==
  [][ requests' > 0 => last'.op = "cmd_load_texts" ]_vars

\* C22 (amended): the remote text service is asked by the bulk refresh, which
\* runs when the admin asks for it and on its own at startup when the mapping
\* file does not exist, and by a monthly trigger that shows a chapter (not a
\* Psalm 119 segment) for which the loaded texts hold nothing: that trigger
\* makes exactly one request, as a command and as a button. Every other
\* interaction, and a monthly trigger whose text is there, makes none.
C22_WhoFetches ==
  [][ /\ last'.op \notin ({"main", "cmd_load_texts"} \cup DailyOps) => requests' = 0
      /\ last'.op = "main" => (requests' > 0) = (~data_file.exists)
      /\ \A u \in Senders :
           /\ Did(last', {"cmd_load_texts"}, u)
                => (requests' > 0) = is_admin(ADMIN_USER_ID, u)
           /\ Did(last', DailyOps, u)
                => /\ requests' \in {0, 1}
                   /\ (requests' = 1)
                        = /\ sent'[1].kind = "daily"
                          /\ Falsy(TextOf(tehillim_cache, data_file,
                                          DAILY_SPLIT[last'.n][1]))
    ]_vars

\* C22 witness: the monthly button on day 2 found no text for chapter 10 in
\* the sample texts and made one request for it, which was answered.
C22_Witness ==
  \E u \in Senders :
    /\ Did(last, {"cb_daily"}, u)
    /\ last.n = 2
    /\ requests = 1
    /\ sent = << Msg("daily", 10, "monthly", RemoteText["v1"][10]) >>

\* C24 (as claimed): the mapping file at DATA_PATH, once it exists, holds for
\* every chapter 1..150 the text the remote service served for it, as a bulk
\* refresh that went through wrote it.
C24_FileIsFullRefresh ==
  data_file.exists => \E v \in RemoteTexts : data_file.data = RemoteText[v]

\* Everything the durable store gives a load: the mapping in the file at
\* DATA_PATH, and the two sample texts when there is no file.
StoreMapping(file) == IF file.exists THEN file.data ELSE SampleTexts

\* The readers that have called load_tehillim.
HasRead(t) == t.op \in ReadOps /\ t.pc \in {"edit", "done"}

\* C23: with handlers of several users and the bulk refresh in flight at once,
\* the cache is either empty (not loaded, or emptied by a refresh) or the whole
\* mapping of the durable store, and every reader got from load_tehillim the
\* whole mapping the store held at that moment, whether it found the cache
\* loaded or, finding it empty, loaded it itself; none got a part of it.
C23_NoPartialCache ==
  /\ DictTruthy(tehillim_cache) => tehillim_cache = StoreMapping(data_file)
  /\ \A i \in 1..Len(tasks.run) :
       LET t == tasks.run[i] IN
         HasRead(t) => /\ t.data = StoreMapping(t.file)
                       /\ DictTruthy(t.data)

\* C23 witness: two readers of different users were in flight while the cache
\* was empty; the first loaded the 150 chapters from the file, a refresh by
\* the admin then replaced the file and emptied the cache, and the second
\* loaded again, each getting the whole mapping of its moment.
C23_Witness ==
  /\ Len(tasks.run) = 3
  /\ tasks.run[1].op = "cb_next" /\ tasks.run[1].user = 1
  /\ tasks.run[2].op = "cb_next" /\ tasks.run[2].user = 2
  /\ tasks.run[3].op = "cmd_load_texts"
  /\ HasRead(tasks.run[1]) /\ HasRead(tasks.run[2])
  /\ tasks.run[1].loaded /\ tasks.run[2].loaded
  /\ tasks.run[1].data = RemoteText["v1"]
  /\ tasks.run[2].data = RemoteText["v2"]

====
